---- MODULE Spec2Model ----
(***************************************************************************)
(* Loot-to-owner assignment engine of assign_loot_to_characters.py.        *)
(*                                                                         *)
(* Every value read from a CSV or TSV file is a string.  Python's None and *)
(* the empty string are both falsy and are written as "" by the CSV        *)
(* writer, so both are the string "" here.                                 *)
(***************************************************************************)
EXTENDS Integers, Sequences, FiniteSets, TLC

\* Number of purchase rows in the ledger (raid_loot.csv).
MaxRows == 2

\* Number of consecutive runs of the engine on its own output.
MaxRuns == 2

Max(S) == CHOOSE m \in S : \A n \in S : n <= m
Min(S) == CHOOSE m \in S : \A n \in S : m <= n

(***************************************************************************)
(* Strings.                                                                *)
(***************************************************************************)

\* Code points of the strings that are ever ordered (ids, dates).
Codes(s) ==
    CASE s = "1" -> <<49>>
      [] s = "2" -> <<50>>
      [] s = "3" -> <<51>>
      [] s = "9" -> <<57>>
      [] s = "10" -> <<49, 48>>
      [] s = "20" -> <<50, 48>>
      [] s = "2024-01-01" -> <<50, 48, 50, 52, 45, 48, 49, 45, 48, 49>>
      [] s = "2024-02-01" -> <<50, 48, 50, 52, 45, 48, 50, 45, 48, 49>>
      [] OTHER -> <<>>

RECURSIVE SeqLess(_, _)
SeqLess(a, b) ==
    IF b = <<>> THEN FALSE
    ELSE IF a = <<>> THEN TRUE
    ELSE IF Head(a) # Head(b) THEN Head(a) < Head(b)
    ELSE SeqLess(Tail(a), Tail(b))

\* Python's < on str: lexicographic by code point.
StrLess(a, b) == SeqLess(Codes(a), Codes(b))

\* "a or b" on strings.
Or(a, b) == IF a # "" THEN a ELSE b

\* dict.get(k, d)
Get(f, k, d) == IF k \in DOMAIN f THEN f[k] ELSE d

\* str.isdigit()
IsDigit(s) == s \in {"1", "2", "9", "10", "20", "71", "72", "73"}

normalize_item_name(s) ==
    CASE s = "Aldo" -> "aldo"
      [] s = "Bea" -> "bea"
      [] s = "Cy" -> "cy"
      [] s = "Cloak of Embers" -> "cloak of embers"
      [] s = "Cloak  of Embers" -> "cloak of embers"
      [] s = "Talisman of Vah Kerrath" -> "talisman of vah kerrath"
      [] s = "Soul Essence of Aten Ha Ra" -> "soul essence of aten ha ra"
      [] s = "Elemental Boot Mold" -> "elemental boot mold"
      [] s = "Elemental Bracer Mold" -> "elemental bracer mold"
      [] s = "Bracer of Storm" -> "bracer of storm"
      [] s = "Bracer of Flame" -> "bracer of flame"
      [] s = "Runed Boots" -> "runed boots"
      [] s = "Elemental Silk Boot Pattern" -> "elemental silk boot pattern"
      [] s = "Greaves of Storm" -> "greaves of storm"
      [] s = "Slippers of Flame" -> "slippers of flame"
      [] OTHER -> s

\* The keywords of the tables below that are substrings of a normalized name.
Substrings(norm) ==
    CASE norm = "cloak of embers" -> {"cloak"}
      [] norm = "elemental boot mold" -> {"elemental", "boot"}
      [] norm = "elemental bracer mold" -> {"elemental", "bracer"}
      [] norm = "elemental silk boot pattern" -> {"elemental", "silk", "boot"}
      [] norm = "greaves of storm" -> {"greave"}
      [] OTHER -> {}

\* LOOT_TO_MAGELO_EQUIVALENTS with no entry.
LOOT_TO_MAGELO_EQUIVALENTS_empty(norm) ==
    {}

LOOT_TO_MAGELO_EQUIVALENTS(norm) ==
    IF norm = "soul essence of aten ha ra" THEN {"talisman of vah kerrath"} ELSE {}

ELEMENTAL_ARMOR_TYPE ==
    LET chain == {"16362", "16363", "16364", "16365", "16366", "16367", "16368"}
        plate == {"16369", "16370", "16371", "16372", "16373", "16374", "16375"}
        leather == {"16376", "16377", "16378", "16379", "16380", "16381", "16382"}
        silk == {"16383", "16384", "16385", "16386", "16387", "16388", "16389", "16693"}
    IN  [id \in chain \cup plate \cup leather \cup silk |->
            IF id \in chain THEN "chain"
            ELSE IF id \in plate THEN "plate"
            ELSE IF id \in leather THEN "leather"
            ELSE "silk"]

\* CLASS_ARMOR_TYPE with every class wearing plate.
CLASS_ARMOR_TYPE_all_plate ==
    [c \in {"rog", "shm", "rng", "brd", "clr", "war", "pal", "shd",
            "mnk", "bst", "dru", "nec", "mag", "wiz", "enc"} |-> "plate"]

CLASS_ARMOR_TYPE ==
    [c \in {"rog", "shm", "rng", "brd", "clr", "war", "pal", "shd",
            "mnk", "bst", "dru", "nec", "mag", "wiz", "enc"} |->
        IF c \in {"rog", "shm", "rng"} THEN "chain"
        ELSE IF c \in {"brd", "clr", "war", "pal", "shd"} THEN "plate"
        ELSE IF c \in {"mnk", "bst", "dru"} THEN "leather"
        ELSE "silk"]

\* Keywords in dict order with their slot ids.
ELEMENTAL_SLOT_KEYWORDS ==
    << <<"head", {2}>>, <<"helm", {2}>>, <<"turban", {2}>>, <<"coif", {2}>>,
       <<"neck", {5}>>, <<"gorget", {5}>>,
       <<"arms", {7}>>, <<"sleeve", {7}>>, <<"arm", {7}>>,
       <<"back", {8}>>, <<"cloak", {8}>>,
       <<"bracer", {9, 10}>>, <<"wrist", {9, 10}>>, <<"bracelet", {9, 10}>>,
       <<"hands", {12}>>, <<"hand", {12}>>, <<"glove", {12}>>, <<"gauntlet", {12}>>,
       <<"chest", {17}>>, <<"tunic", {17}>>, <<"breast", {17}>>, <<"breastplate", {17}>>,
       <<"legs", {18}>>, <<"leg", {18}>>, <<"greave", {18}>>, <<"pant", {18}>>,
       <<"feet", {19}>>, <<"boot", {19}>> ,
       <<"waist", {20}>>, <<"girdle", {20}>> >>

\* (armor_type, slot_ids); "" and {} stand for None.
parse_elemental_loot_slot_and_armor(item_name) ==
    LET norm == normalize_item_name(item_name)
        sub == Substrings(norm)
        ats == <<"silk", "chain", "plate", "leather">>
        hitA == {i \in 1..Len(ats) : ats[i] \in sub}
        hitS == {i \in 1..Len(ELEMENTAL_SLOT_KEYWORDS) : ELEMENTAL_SLOT_KEYWORDS[i][1] \in sub}
    IN  IF "elemental" \notin sub THEN <<"", {}>>
        ELSE << IF hitA = {} THEN "" ELSE ats[Min(hitA)],
                IF hitS = {} THEN {} ELSE ELEMENTAL_SLOT_KEYWORDS[Min(hitS)][2] >>

class_to_short(cls) ==
    CASE cls = "Warrior" -> "war"
      [] cls = "Wizard" -> "wiz"
      [] cls = "Monk" -> "mnk"
      [] OTHER -> cls


(***************************************************************************)
(* Loaders: the dictionaries run() builds from its input files.            *)
(***************************************************************************)


\* str.strip() on the values of raid_loot.csv.
strip(v) ==
    CASE v = "5 " -> "5"
      [] v = " Cloak of Embers" -> "Cloak of Embers"
      [] OTHER -> v

\* The rows of raid_loot.csv with every value stripped; [] when the file is missing.
load_raid_loot(file) ==
    IF ~file.raid_loot_exists THEN <<>>
    ELSE [i \in DOMAIN file.raid_loot_csv |->
             [k \in DOMAIN file.raid_loot_csv[i] |-> strip(file.raid_loot_csv[i][k])]]

\* char_id -> account_id (last row wins); account_id -> [char_id, ...] in file order.
load_character_account(rows) ==
    LET valid == SelectSeq(rows, LAMBDA r : r.char_id # "" /\ r.account_id # "")
        idx == DOMAIN valid
    IN  [ c2a |-> [c \in {valid[i].char_id : i \in idx} |->
                      valid[Max({i \in idx : valid[i].char_id = c})].account_id],
          a2c |-> [a \in {valid[i].account_id : i \in idx} |->
                      LET s == SelectSeq(valid, LAMBDA r : r.account_id = a)
                      IN  [i \in 1..Len(s) |-> s[i].char_id]] ]

\* (name -> char_id under the raw and the normalized name, char_id -> name).
load_characters(rows) ==
    LET valid == SelectSeq(rows, LAMBDA r : r.name # "" /\ r.char_id # "")
        idx == DOMAIN valid
        keyOf(i) == {valid[i].name, normalize_item_name(valid[i].name)}
    IN  [ name_to_cid |-> [n \in UNION {keyOf(i) : i \in idx} |->
                              valid[Max({i \in idx : n \in keyOf(i)})].char_id],
          cid_to_name |-> [c \in {valid[i].char_id : i \in idx} |->
                              valid[Max({i \in idx : valid[i].char_id = c})].name] ]

\* char_id -> class short name.
load_character_classes(rows) ==
    LET valid == SelectSeq(rows, LAMBDA r : r.char_id # "" /\ r.class_name # "")
        idx == DOMAIN valid
    IN  [c \in {valid[i].char_id : i \in idx} |->
            class_to_short(valid[Max({i \in idx : valid[i].char_id = c})].class_name)]

\* (name -> magelo id under the raw and the normalized name, magelo id -> name).
load_magelo_character_file(rows) ==
    LET valid == SelectSeq(rows, LAMBDA r : r.name # "" /\ r.id # "")
        idx == DOMAIN valid
        keyOf(i) == {valid[i].name, normalize_item_name(valid[i].name)}
    IN  [ name_to_id |-> [n \in UNION {keyOf(i) : i \in idx} |->
                             valid[Max({i \in idx : n \in keyOf(i)})].id],
          id_to_name |-> [c \in {valid[i].id : i \in idx} |->
                             valid[Max({i \in idx : valid[i].id = c})].name] ]

\* magelo char id -> [ [item_id, item_name, slot_id], ... ] in file order.
load_magelo_inventory(rows) ==
    LET valid == SelectSeq(rows, LAMBDA r : r.cid # "")
        idx == DOMAIN valid
    IN  [c \in {valid[i].cid : i \in idx} |->
            LET s == SelectSeq(valid, LAMBDA r : r.cid = c)
            IN  [i \in 1..Len(s) |->
                    [item_id |-> s[i].item_id, item_name |-> s[i].item_name,
                     slot_id |-> s[i].slot_id]]]

\* dkp_elemental_to_magelo.json: normalized purchase name -> class -> item id.
load_dkp_elemental_map(purchases) ==
    LET valid == SelectSeq(purchases, LAMBDA e : e.name # "")
        idx == DOMAIN valid
        names == {normalize_item_name(valid[i].name) : i \in idx}
    IN  [ out_map |-> [n \in names |->
                          valid[Max({i \in idx : normalize_item_name(valid[i].name) = n})]
                              .magelo_item_ids_by_class],
          names_set |-> names ]

\* Normalized names of held items whose id is in the catalog, plus the extra names.
build_elemental_item_names(magelo_inv, elemental_item_ids, extra_names) ==
    UNION {{normalize_item_name(magelo_inv[c][i].item_name) :
                i \in {j \in DOMAIN magelo_inv[c] :
                          /\ magelo_inv[c][j].item_id \in elemental_item_ids
                          /\ magelo_inv[c][j].item_name # ""}} :
           c \in DOMAIN magelo_inv}
    \cup {normalize_item_name(n) : n \in {m \in extra_names : m # ""}}

\* DKP char_id -> Magelo id, joined on the character name.
build_dkp_to_magelo_id(dkp_char_id_to_name, magelo_names_to_id) ==
    LET idOf(c) == Or(Get(magelo_names_to_id, dkp_char_id_to_name[c], ""),
                      Get(magelo_names_to_id, normalize_item_name(dkp_char_id_to_name[c]), ""))
    IN  [c \in {d \in DOMAIN dkp_char_id_to_name : idOf(d) # ""} |-> idOf(c)]


(***************************************************************************)
(* Buyer resolution and inventory matching.                                *)
(***************************************************************************)

\* Account id of the buyer of a row, "" when none is found.
resolve_buyer_account(row, char_to_account, name_to_char) ==
    LET cid == row.char_id
        name == row.character_name
        cid_from_name == Or(Get(name_to_char, name, ""),
                            Get(name_to_char, normalize_item_name(name), ""))
    IN  IF cid # "" /\ cid \in DOMAIN char_to_account THEN char_to_account[cid]
        ELSE IF name # "" /\ cid_from_name # "" /\ cid_from_name \in DOMAIN char_to_account
             THEN char_to_account[cid_from_name]
        ELSE ""

\* int(slot_id or 0) with ValueError -> 0
SlotInt(s) ==
    CASE s = "8" -> 8
      [] s = "9" -> 9
      [] s = "10" -> 10
      [] s = "18" -> 18
      [] s = "19" -> 19
      [] OTHER -> 0

\* elemental_lookup is None
NoLookup == [is_none |-> TRUE, magelo_item_ids_by_class |-> <<>>]

\* The char_ids of the account, in list order, that hold an item matching the purchase.
which_toons_have_item(item_name, account_char_ids, magelo_inv, elemental_item_ids, elemental_source_names, dkp_to_magelo_id, elemental_id_to_armor, char_id_to_class, required_armor_type, required_slot_ids, elemental_lookup) ==
    LET norm_loot == normalize_item_name(item_name)
        magelo_names_to_match == {norm_loot} \cup LOOT_TO_MAGELO_EQUIVALENTS(norm_loot)
        is_elemental_source == norm_loot \in elemental_source_names
        use_json_match == ~elemental_lookup.is_none /\ is_elemental_source
        magelo_by_class == elemental_lookup.magelo_item_ids_by_class
        slot_filter == required_slot_ids # {}
        has(cid) ==
            LET magelo_id == Or(Get(dkp_to_magelo_id, cid, ""), cid)
                items == Get(magelo_inv, magelo_id, <<>>)
                class_short == Get(char_id_to_class, cid, "")
                allowed_armor == IF DOMAIN char_id_to_class # {}
                                 THEN Get(CLASS_ARMOR_TYPE, class_short, "") ELSE ""
                hit(it) ==
                    IF is_elemental_source
                    THEN IF use_json_match
                         THEN LET expected_id == Get(magelo_by_class, class_short, "")
                              IN  expected_id # "" /\ it.item_id = expected_id
                         ELSE LET item_armor == Get(elemental_id_to_armor, it.item_id, "")
                              IN  /\ it.item_id \in elemental_item_ids
                                  /\ slot_filter => SlotInt(it.slot_id) \in required_slot_ids
                                  /\ IF required_armor_type # ""
                                     THEN item_armor = required_armor_type
                                     ELSE ~(item_armor # "" /\ allowed_armor # ""
                                            /\ item_armor # allowed_armor)
                    ELSE normalize_item_name(it.item_name) \in magelo_names_to_match
            IN  \E i \in DOMAIN items : hit(items[i])
    IN  SelectSeq(account_char_ids, has)

\* For each char_id of the account, the number of copies that count towards its cap.
item_count_per_toon(item_name, account_char_ids, magelo_inv, elemental_item_ids, elemental_source_names, dkp_to_magelo_id, elemental_id_to_armor, char_id_to_class, required_armor_type, required_slot_ids, elemental_lookup) ==
    LET norm_loot == normalize_item_name(item_name)
        magelo_names_to_match == {norm_loot} \cup LOOT_TO_MAGELO_EQUIVALENTS(norm_loot)
        is_elemental_source == norm_loot \in elemental_source_names
        use_json_match == ~elemental_lookup.is_none /\ is_elemental_source
        magelo_by_class == elemental_lookup.magelo_item_ids_by_class
        slot_filter == required_slot_ids # {}
        count(cid) ==
            LET magelo_id == Or(Get(dkp_to_magelo_id, cid, ""), cid)
                items == Get(magelo_inv, magelo_id, <<>>)
                class_short == Get(char_id_to_class, cid, "")
                allowed_armor == IF DOMAIN char_id_to_class # {}
                                 THEN Get(CLASS_ARMOR_TYPE, class_short, "") ELSE ""
                expected_id == Get(magelo_by_class, class_short, "")
                byId == {i \in DOMAIN items :
                            expected_id # "" /\ items[i].item_id = expected_id}
                bySlot == {i \in DOMAIN items :
                            LET item_armor == Get(elemental_id_to_armor, items[i].item_id, "")
                            IN  /\ items[i].item_id \in elemental_item_ids
                                /\ slot_filter => SlotInt(items[i].slot_id) \in required_slot_ids
                                /\ IF required_armor_type # ""
                                   THEN item_armor = required_armor_type
                                   ELSE ~(item_armor # "" /\ allowed_armor # ""
                                          /\ item_armor # allowed_armor)}
                byName == {i \in DOMAIN items :
                            normalize_item_name(items[i].item_name) \in magelo_names_to_match}
            IN  IF is_elemental_source
                THEN IF use_json_match THEN Cardinality(byId)
                     ELSE IF bySlot # {} THEN 1 ELSE 0
                ELSE Cardinality(byName)
    IN  [cid \in {account_char_ids[i] : i \in DOMAIN account_char_ids} |-> count(cid)]


(***************************************************************************)
(* State of one invocation of run().                                       *)
(***************************************************************************)

VARIABLES
    inputs,                  \* the dictionaries loaded at lines 492-517
    loot_rows,               \* load_raid_loot(data_dir)
    clear_assignments,       \* --clear-assignments
    pc,                      \* "main", "exit1", "start", "alloc", "done" or "crashed"
    assigned_char_id,
    assigned_character_name,
    assigned_via_magelo,
    manual_only_indices,
    n_preserved,
    queue,                   \* <<acc, idx>> still to visit by the loops at 583 and 595
    cur_acc,                 \* account whose counters are live ("" before the first)
    dkp_spent_per_char,
    count_per_char,
    item_count_per_char,
    seen,                    \* idx -> what the decision at 609-685 read and left behind
    out_rows,                \* rows written to out_raid_loot
    counts_rows,             \* rows written to out_counts
    n_new,
    run_no,                  \* 1 for the first run, 2 for the run on its output, ...
    prev_out,                \* out_rows of the previous run
    files,                   \* raid_loot.csv as it is on disk, and which files exist
    ledger_from              \* "operator", "own_output" or "blanked": who wrote raid_loot.csv

vars == <<inputs, loot_rows, clear_assignments, pc, assigned_char_id,
          assigned_character_name, assigned_via_magelo, manual_only_indices,
          n_preserved, queue, cur_acc, dkp_spent_per_char, count_per_char,
          item_count_per_char, seen, out_rows, counts_rows, n_new, run_no, prev_out, files, ledger_from>>

Rows == DOMAIN loot_rows

\* float(row.get("cost") or 0) raises ValueError on these.
CostRaises(cost) == cost \in {"abc"}

\* float(row.get("cost") or 0) or 0
CostVal(cost) ==
    CASE cost = "1" -> 1
      [] cost = "2" -> 2
      [] cost = "5" -> 5
      [] OTHER -> 0

\* defaultdict: read with default 0, add n at key k.
Inc(f, k, n) == [x \in DOMAIN f \cup {k} |-> Get(f, x, 0) + (IF x = k THEN n ELSE 0)]

(***************************************************************************)
(* main() (lines 754-800).                                                 *)
(***************************************************************************)

\* A Magelo file is missing: main() returns 1 at 787-792 without calling run().
MainMissingFile ==
    /\ pc = "main"
    /\ ~files.char_file_exists \/ ~files.inv_file_exists
    /\ pc' = "exit1"
    /\ UNCHANGED <<inputs, loot_rows, clear_assignments, assigned_char_id,
                   assigned_character_name, assigned_via_magelo, manual_only_indices,
                   n_preserved, queue, cur_acc, dkp_spent_per_char, count_per_char,
                   item_count_per_char, seen, out_rows, counts_rows, n_new, run_no,
                   prev_out, files, ledger_from>>

\* main() calls run() at 794, which loads the ledger at 496.
MainRun ==
    /\ pc = "main"
    /\ files.char_file_exists /\ files.inv_file_exists
    /\ loot_rows' = load_raid_loot(files)
    /\ pc' = "start"
    /\ UNCHANGED <<inputs, clear_assignments, assigned_char_id,
                   assigned_character_name, assigned_via_magelo, manual_only_indices,
                   n_preserved, queue, cur_acc, dkp_spent_per_char, count_per_char,
                   item_count_per_char, seen, out_rows, counts_rows, n_new, run_no,
                   prev_out, files, ledger_from>>

(***************************************************************************)
(* Grouping by account and raid order (lines 519-542, 583-589).            *)
(***************************************************************************)

\* loot_sort_key that orders the rows by their position in the file only.
loot_sort_key_file_order(idx) ==
    <<"", "", "", idx>>

\* Lines 519-525.
loot_sort_key(idx) ==
    LET rid == loot_rows[idx].raid_id
    IN  <<Get(inputs.raids, rid, ""), rid, loot_rows[idx].event_id, idx>>

\* Python's < on the key tuples.
KeyLess(a, b) ==
    IF a[1] # b[1] THEN StrLess(a[1], b[1])
    ELSE IF a[2] # b[2] THEN StrLess(a[2], b[2])
    ELSE IF a[3] # b[3] THEN StrLess(a[3], b[3])
    ELSE a[4] < b[4]

\* sorted(indices, key=loot_sort_key)
RECURSIVE indices_sorted(_)
indices_sorted(S) ==
    IF S = {} THEN <<>>
    ELSE LET m == CHOOSE i \in S :
                     \A j \in S \ {i} : KeyLess(loot_sort_key(i), loot_sort_key(j))
         IN  <<m>> \o indices_sorted(S \ {m})

\* Key of loot_by_account under which a row is filed.
loot_by_account_key(row) ==
    LET acc == resolve_buyer_account(row, inputs.char_to_account, inputs.name_to_char)
    IN  IF acc # "" THEN acc
        ELSE IF row.char_id # "" THEN row.char_id
        ELSE IF row.character_name # "" /\ row.character_name \in DOMAIN inputs.name_to_char
             THEN inputs.name_to_char[row.character_name]
        ELSE "_unknown"

\* The keys of loot_by_account in insertion order.
RECURSIVE account_order(_, _)
account_order(i, acc_seen) ==
    IF i > Len(loot_rows) THEN <<>>
    ELSE LET k == loot_by_account_key(loot_rows[i])
         IN  IF k \in acc_seen THEN account_order(i + 1, acc_seen)
             ELSE <<k>> \o account_order(i + 1, acc_seen \cup {k})

\* Every (account, row) visit of the nested loops at 583 and 595, in order.
RECURSIVE visit_order(_)
visit_order(accs) ==
    IF accs = <<>> THEN <<>>
    ELSE LET acc == Head(accs)
             sorted == indices_sorted({i \in Rows : loot_by_account_key(loot_rows[i]) = acc})
         IN  [j \in 1..Len(sorted) |-> <<acc, sorted[j]>>] \o visit_order(Tail(accs))

account_toons(acc) ==
    LET t == Get(inputs.account_to_chars, acc, <<>>)
    IN  IF t # <<>> THEN t
        ELSE IF acc # "_unknown" THEN <<acc>> ELSE <<>>


(***************************************************************************)
(* Preservation pass (lines 546-581).                                      *)
(***************************************************************************)

\* manual_col in ("1", "true", "yes") after strip().lower()
is_explicit_manual(row) == row.manual_assignment \in {"1", "true", "True", "yes"}

has_existing_assignment(row) ==
    row.assigned_char_id # "" \/ row.assigned_character_name # ""

\* preserve_branch with the manual flag honoured only outside recompute mode.
preserve_branch_manual_cleared(row, clear) ==
    IF is_explicit_manual(row) /\ ~clear THEN "explicit_manual"
    ELSE IF row.assigned_via_magelo = "0" /\ has_existing_assignment(row) /\ ~clear
         THEN "legacy_manual"
    ELSE IF has_existing_assignment(row) /\ ~clear THEN "existing"
    ELSE "undecided"

\* preserve_branch that keeps via_magelo=0 assignments in recompute mode too.
preserve_branch_legacy_always(row, clear) ==
    IF is_explicit_manual(row) THEN "explicit_manual"
    ELSE IF row.assigned_via_magelo = "0" /\ has_existing_assignment(row)
         THEN "legacy_manual"
    ELSE IF has_existing_assignment(row) /\ ~clear THEN "existing"
    ELSE "undecided"

\* Which branch of the if/elif chain at 563-581 a row takes.
preserve_branch(row, clear) ==
    IF is_explicit_manual(row) THEN "explicit_manual"
    ELSE IF row.assigned_via_magelo = "0" /\ has_existing_assignment(row) /\ ~clear
         THEN "legacy_manual"
    ELSE IF has_existing_assignment(row) /\ ~clear THEN "existing"
    ELSE "undecided"

\* preserved_via_magelo that keeps the flag of every row it reads.
preserved_via_magelo_as_read(row, clear) ==
    row.assigned_via_magelo = "1"

\* assigned_via_magelo[idx] as set by the branch.
preserved_via_magelo(row, clear) ==
    IF preserve_branch(row, clear) \in {"legacy_manual", "existing"}
    THEN row.assigned_via_magelo = "1"
    ELSE FALSE

Prepass ==
    /\ pc = "start"
    /\ assigned_char_id' =
          [i \in Rows |-> IF preserve_branch(loot_rows[i], clear_assignments) = "undecided"
                          THEN "" ELSE loot_rows[i].assigned_char_id]
    /\ assigned_character_name' =
          [i \in Rows |-> IF preserve_branch(loot_rows[i], clear_assignments) = "undecided"
                          THEN "" ELSE loot_rows[i].assigned_character_name]
    /\ assigned_via_magelo' =
          [i \in Rows |-> preserved_via_magelo(loot_rows[i], clear_assignments)]
    /\ manual_only_indices' =
          {i \in Rows : preserve_branch(loot_rows[i], clear_assignments)
                            \in {"explicit_manual", "legacy_manual"}}
    /\ n_preserved' =
          Cardinality({i \in Rows :
                          preserve_branch(loot_rows[i], clear_assignments) # "undecided"})
    /\ queue' = visit_order(account_order(1, {}))
    /\ cur_acc' = ""
    /\ pc' = "alloc"
    /\ UNCHANGED <<inputs, loot_rows, clear_assignments, dkp_spent_per_char,
                   count_per_char, item_count_per_char, seen, out_rows, counts_rows,
                   n_new, run_no, prev_out, files, ledger_from>>

(***************************************************************************)
(* Allocation pass (lines 583-685): one step per visited row.              *)
(***************************************************************************)

head_acc == Head(queue)[1]
head_idx == Head(queue)[2]

\* The counters as the row at the head of the queue finds them: fresh
\* defaultdicts when the row is the first of its account (591-593).
spent_in == IF head_acc # cur_acc THEN <<>> ELSE dkp_spent_per_char
count_in == IF head_acc # cur_acc THEN <<>> ELSE count_per_char
items_in == IF head_acc # cur_acc THEN <<>> ELSE item_count_per_char

\* keeps_existing looking at assigned_char_id only.
keeps_existing_id_only(idx) ==
    /\ ~clear_assignments
    /\ assigned_char_id[idx] # ""

\* The condition of the "if" at 599.
keeps_existing(idx) ==
    /\ ~clear_assignments
    /\ (assigned_char_id[idx] # "" \/ assigned_character_name[idx] # "")

\* AllocSkipManual that counts the manual row for its owner before skipping it.
AllocSkipManual_counted ==
    /\ pc = "alloc" /\ queue # <<>>
    /\ head_idx \in manual_only_indices
    /\ LET cid_existing == assigned_char_id[head_idx]
           norm_item == normalize_item_name(loot_rows[head_idx].item_name)
       IN  IF cid_existing # ""
           THEN /\ count_per_char' = Inc(count_in, cid_existing, 1)
                /\ dkp_spent_per_char' = Inc(spent_in, cid_existing, 1)
                /\ item_count_per_char' = Inc(items_in, <<cid_existing, norm_item>>, 1)
           ELSE /\ count_per_char' = count_in
                /\ dkp_spent_per_char' = spent_in
                /\ item_count_per_char' = items_in
    /\ queue' = Tail(queue)
    /\ cur_acc' = head_acc
    /\ UNCHANGED <<inputs, loot_rows, clear_assignments, pc, assigned_char_id,
                   assigned_character_name, assigned_via_magelo, manual_only_indices,
                   n_preserved, seen, out_rows, counts_rows, n_new, run_no, prev_out,
                   files, ledger_from>>

AllocSkipManual ==
    /\ pc = "alloc" /\ queue # <<>>
    /\ head_idx \in manual_only_indices
    /\ queue' = Tail(queue)
    /\ cur_acc' = head_acc
    /\ dkp_spent_per_char' = spent_in
    /\ count_per_char' = count_in
    /\ item_count_per_char' = items_in
    /\ UNCHANGED <<inputs, loot_rows, clear_assignments, pc, assigned_char_id,
                   assigned_character_name, assigned_via_magelo, manual_only_indices,
                   n_preserved, seen, out_rows, counts_rows, n_new, run_no, prev_out, files, ledger_from>>

\* AllocFoldExisting that keeps the row and folds nothing into the counters.
AllocFoldExisting_no_fold ==
    /\ pc = "alloc" /\ queue # <<>>
    /\ head_idx \notin manual_only_indices
    /\ keeps_existing(head_idx)
    /\ queue' = Tail(queue)
    /\ cur_acc' = head_acc
    /\ dkp_spent_per_char' = spent_in
    /\ count_per_char' = count_in
    /\ item_count_per_char' = items_in
    /\ UNCHANGED <<inputs, loot_rows, clear_assignments, pc, assigned_char_id,
                   assigned_character_name, assigned_via_magelo, manual_only_indices,
                   n_preserved, seen, out_rows, counts_rows, n_new, run_no, prev_out,
                   files, ledger_from>>

\* Lines 599-608.
AllocFoldExisting ==
    /\ pc = "alloc" /\ queue # <<>>
    /\ head_idx \notin manual_only_indices
    /\ keeps_existing(head_idx)
    /\ LET cid_existing == assigned_char_id[head_idx]
           norm_item == normalize_item_name(loot_rows[head_idx].item_name)
       IN  /\ cid_existing # "" => ~CostRaises(loot_rows[head_idx].cost)
           /\ IF cid_existing # ""
              THEN /\ count_per_char' = Inc(count_in, cid_existing, 1)
                   /\ dkp_spent_per_char' =
                         Inc(spent_in, cid_existing, CostVal(loot_rows[head_idx].cost))
                   /\ item_count_per_char' =
                         IF norm_item # "" THEN Inc(items_in, <<cid_existing, norm_item>>, 1)
                         ELSE items_in
              ELSE /\ count_per_char' = count_in
                   /\ dkp_spent_per_char' = spent_in
                   /\ item_count_per_char' = items_in
    /\ queue' = Tail(queue)
    /\ cur_acc' = head_acc
    /\ UNCHANGED <<inputs, loot_rows, clear_assignments, pc, assigned_char_id,
                   assigned_character_name, assigned_via_magelo, manual_only_indices,
                   n_preserved, seen, out_rows, counts_rows, n_new, run_no, prev_out, files, ledger_from>>

\* float() at 603 or 614 raises ValueError: run() ends without writing anything.
AllocCostError ==
    /\ pc = "alloc" /\ queue # <<>>
    /\ head_idx \notin manual_only_indices
    /\ keeps_existing(head_idx) => assigned_char_id[head_idx] # ""
    /\ CostRaises(loot_rows[head_idx].cost)
    /\ pc' = "crashed"
    /\ UNCHANGED <<inputs, loot_rows, clear_assignments, assigned_char_id,
                   assigned_character_name, assigned_via_magelo, manual_only_indices,
                   n_preserved, queue, cur_acc, dkp_spent_per_char, count_per_char,
                   item_count_per_char, seen, out_rows, counts_rows, n_new, run_no,
                   prev_out, files, ledger_from>>

\* elemental_lookup that never finds the purchase in the per-class id map.
elemental_lookup_for_none(norm_item) ==
    NoLookup

\* elemental_lookup at 616.
elemental_lookup_for(norm_item) ==
    IF DOMAIN inputs.dkp_elemental_map # {} /\ norm_item \in DOMAIN inputs.dkp_elemental_map
    THEN [is_none |-> FALSE, magelo_item_ids_by_class |-> inputs.dkp_elemental_map[norm_item]]
    ELSE NoLookup

\* (req_armor, req_slots) at 617-620.
required_for(item_name) ==
    IF elemental_lookup_for(normalize_item_name(item_name)).is_none
       /\ normalize_item_name(item_name) \in inputs.elemental_source_norm
    THEN parse_elemental_loot_slot_and_armor(item_name)
    ELSE <<"", {}>>

\* magelo_count_per_toon at 621-633.
magelo_count_per_toon(item_name, toons) ==
    item_count_per_toon(item_name, toons, inputs.magelo_inv, inputs.elemental_ids,
                        inputs.elemental_source_norm, inputs.dkp_to_magelo_id,
                        ELEMENTAL_ARMOR_TYPE, inputs.char_id_to_class,
                        required_for(item_name)[1], required_for(item_name)[2],
                        elemental_lookup_for(normalize_item_name(item_name)))

\* candidates that stops at the first toon found holding the item.
candidates_for_first_only(item_name, toons) ==
    LET all == which_toons_have_item(item_name, toons, inputs.magelo_inv,
                   inputs.elemental_ids, inputs.elemental_source_norm,
                   inputs.dkp_to_magelo_id, ELEMENTAL_ARMOR_TYPE, inputs.char_id_to_class,
                   required_for(item_name)[1], required_for(item_name)[2],
                   elemental_lookup_for(normalize_item_name(item_name)))
    IN  SubSeq(all, 1, Min({1, Len(all)}))

\* candidates at 639-651.
candidates_for(item_name, toons) ==
    which_toons_have_item(item_name, toons, inputs.magelo_inv, inputs.elemental_ids,
                          inputs.elemental_source_norm, inputs.dkp_to_magelo_id,
                          ELEMENTAL_ARMOR_TYPE, inputs.char_id_to_class,
                          required_for(item_name)[1], required_for(item_name)[2],
                          elemental_lookup_for(normalize_item_name(item_name)))

\* under_cap_test that lets a toon at its cap through.
under_cap_test_inclusive(c, caps, items, norm_item) ==
    Get(caps, c, 0) > 0 /\ Get(items, <<c, norm_item>>, 0) <= Get(caps, c, 0)

\* under_cap_test that stops one copy short of the cap.
under_cap_test_one_short(c, caps, items, norm_item) ==
    Get(caps, c, 0) > 0 /\ Get(items, <<c, norm_item>>, 0) + 1 < Get(caps, c, 0)

\* The test at 659 and 673: the toon holds the item and is under its cap.
under_cap_test(c, caps, items, norm_item) ==
    Get(caps, c, 0) > 0 /\ Get(items, <<c, norm_item>>, 0) < Get(caps, c, 0)

\* best_key_greater with the identifier tie-break reversed.
best_key_greater_lowest_id(a, b, spent, count) ==
    IF Get(spent, a, 0) # Get(spent, b, 0) THEN Get(spent, a, 0) > Get(spent, b, 0)
    ELSE IF Get(count, a, 0) # Get(count, b, 0) THEN Get(count, a, 0) > Get(count, b, 0)
    ELSE StrLess(a, b)

\* best_key_greater without the identifier as last key component.
best_key_greater_no_id(a, b, spent, count) ==
    IF Get(spent, a, 0) # Get(spent, b, 0) THEN Get(spent, a, 0) > Get(spent, b, 0)
    ELSE Get(count, a, 0) > Get(count, b, 0)

\* best_key_greater that compares the identifiers only.
best_key_greater_id_only(a, b, spent, count) ==
    StrLess(b, a)

\* (dkp_spent_per_char[a], count_per_char[a], a) > (the same of b)
best_key_greater(a, b, spent, count) ==
    IF Get(spent, a, 0) # Get(spent, b, 0) THEN Get(spent, a, 0) > Get(spent, b, 0)
    ELSE IF Get(count, a, 0) # Get(count, b, 0) THEN Get(count, a, 0) > Get(count, b, 0)
    ELSE StrLess(b, a)

\* max(under_cap, key=...) at 680: the first element no other element beats.
best_of(under_cap, spent, count) ==
    LET top == {i \in DOMAIN under_cap :
                   \A j \in DOMAIN under_cap :
                       ~best_key_greater(under_cap[j], under_cap[i], spent, count)}
    IN  under_cap[Min(top)]

\* chosen_toon that falls back to the first toon of the account when nobody
\* holds the item.
chosen_toon_default_first(item_name, toons, spent, count, items) ==
    LET norm_item == normalize_item_name(item_name)
        caps == magelo_count_per_toon(item_name, toons)
        candidates == candidates_for(item_name, toons)
        under_cap == SelectSeq(candidates,
                               LAMBDA c : under_cap_test(c, caps, items, norm_item))
    IN  IF toons = <<>> THEN ""
        ELSE IF Len(candidates) = 0 THEN toons[1]
        ELSE IF Len(candidates) = 1
             THEN IF under_cap_test(candidates[1], caps, items, norm_item)
                  THEN candidates[1] ELSE ""
        ELSE IF under_cap = <<>> THEN ""
        ELSE best_of(under_cap, spent, count)

\* The toon lines 653-685 assign the row to, "" when they leave it unassigned.
chosen_toon(item_name, toons, spent, count, items) ==
    LET norm_item == normalize_item_name(item_name)
        caps == magelo_count_per_toon(item_name, toons)
        candidates == candidates_for(item_name, toons)
        under_cap == SelectSeq(candidates,
                               LAMBDA c : under_cap_test(c, caps, items, norm_item))
    IN  IF toons = <<>> THEN ""
        ELSE IF Len(candidates) = 0 THEN ""
        ELSE IF Len(candidates) = 1
             THEN IF under_cap_test(candidates[1], caps, items, norm_item)
                  THEN candidates[1] ELSE ""
        ELSE IF under_cap = <<>> THEN ""
        ELSE best_of(under_cap, spent, count)

\* assigned_character_name at 662 and 682.
new_assignment_name(cid) ==
    Or(Get(inputs.dkp_char_id_to_name, cid, ""),
       Or(Get(inputs.magelo_id_to_name, Get(inputs.dkp_to_magelo_id, cid, ""), ""), cid))

\* Lines 609-685.
AllocDecide ==
    /\ pc = "alloc" /\ queue # <<>>
    /\ head_idx \notin manual_only_indices
    /\ ~keeps_existing(head_idx)
    /\ ~CostRaises(loot_rows[head_idx].cost)
    /\ LET row == loot_rows[head_idx]
           norm_item == normalize_item_name(row.item_name)
           cost_val == CostVal(row.cost)
           toons == account_toons(head_acc)
           cid == chosen_toon(row.item_name, toons, spent_in, count_in, items_in)
       IN  /\ IF cid # ""
              THEN /\ assigned_via_magelo' = [assigned_via_magelo EXCEPT ![head_idx] = TRUE]
                   /\ assigned_char_id' = [assigned_char_id EXCEPT ![head_idx] = cid]
                   /\ assigned_character_name' =
                         [assigned_character_name EXCEPT ![head_idx] = new_assignment_name(cid)]
                   /\ count_per_char' = Inc(count_in, cid, 1)
                   /\ dkp_spent_per_char' = Inc(spent_in, cid, cost_val)
                   /\ item_count_per_char' = Inc(items_in, <<cid, norm_item>>, 1)
              ELSE /\ UNCHANGED <<assigned_via_magelo, assigned_char_id,
                                  assigned_character_name>>
                   /\ count_per_char' = count_in
                   /\ dkp_spent_per_char' = spent_in
                   /\ item_count_per_char' = items_in
           /\ seen' = [i \in DOMAIN seen \cup {head_idx} |->
                          IF i = head_idx
                          THEN [acc |-> head_acc,
                                at |-> Len(loot_rows) - Len(queue) + 1,
                                toons |-> toons,
                                caps |-> magelo_count_per_toon(row.item_name, toons),
                                spent |-> spent_in, count |-> count_in, items |-> items_in,
                                spent_out |-> dkp_spent_per_char',
                                count_out |-> count_per_char',
                                items_out |-> item_count_per_char']
                          ELSE seen[i]]
    /\ queue' = Tail(queue)
    /\ cur_acc' = head_acc
    /\ UNCHANGED <<inputs, loot_rows, clear_assignments, pc, manual_only_indices,
                   n_preserved, out_rows, counts_rows, n_new, run_no, prev_out, files, ledger_from>>


(***************************************************************************)
(* Name resolution, output files and summary (lines 687-751).              *)
(***************************************************************************)

\* assigned_character_name[idx] after the loop at 688-700.
resolved_name(idx) ==
    LET cid == assigned_char_id[idx]
        by_id == Or(Get(inputs.dkp_char_id_to_name, cid, ""),
                    Or(Get(inputs.magelo_id_to_name,
                           Get(inputs.dkp_to_magelo_id, cid, ""), ""),
                       Get(inputs.magelo_id_to_name, cid, "")))
        by_scan == {n \in DOMAIN inputs.name_to_char :
                       inputs.name_to_char[n] = cid /\ n # "" /\ ~IsDigit(n)}
    IN  IF assigned_character_name[idx] # "" THEN assigned_character_name[idx]
        ELSE IF cid = "" THEN ""
        ELSE IF by_id # "" THEN by_id
        ELSE IF by_scan # {} THEN CHOOSE n \in by_scan : TRUE
        ELSE cid

\* fieldnames that never includes the id column.
fieldnames_without_id ==
    LET first == IF loot_rows # <<>> THEN DOMAIN loot_rows[1] ELSE {}
    IN  {"raid_id", "event_id", "item_name", "char_id", "character_name", "cost",
         "assigned_char_id", "assigned_character_name", "assigned_via_magelo"}
        \cup (first \cap {"manual_assignment", "manual"})

\* The columns of the written ledger (703-708); their order is not modelled.
fieldnames ==
    LET first == IF loot_rows # <<>> THEN DOMAIN loot_rows[1] ELSE {}
    IN  {"raid_id", "event_id", "item_name", "char_id", "character_name", "cost",
         "assigned_char_id", "assigned_character_name", "assigned_via_magelo"}
        \cup (first \cap {"id", "manual_assignment", "manual"})

\* The row the DictWriter writes for loot_rows[i] (713-718): columns outside
\* fieldnames are ignored, a missing value is written as "".
row_out(i) ==
    [f \in fieldnames |->
        CASE f = "assigned_char_id" -> assigned_char_id[i]
          [] f = "assigned_character_name" -> resolved_name(i)
          [] f = "assigned_via_magelo" -> (IF assigned_via_magelo[i] THEN "1" ELSE "0")
          [] OTHER -> Get(loot_rows[i], f, "")]

\* count_global that leaves out the rows kept as manual.
count_global_without_manual(cid) ==
    Cardinality({i \in Rows \ manual_only_indices : assigned_char_id[i] = cid})

\* count_global[cid]
count_global(cid) == Cardinality({i \in Rows : assigned_char_id[i] = cid})

\* sorted(count_global.items(), key=lambda x: -x[1]): stable on insertion order.
RECURSIVE counts_sorted(_)
counts_sorted(S) ==
    IF S = {} THEN <<>>
    ELSE LET first(c) == Min({i \in Rows : assigned_char_id[i] = c})
             m == CHOOSE c \in S :
                     \A d \in S \ {c} :
                         \/ count_global(c) > count_global(d)
                         \/ count_global(c) = count_global(d) /\ first(c) < first(d)
         IN  <<m>> \o counts_sorted(S \ {m})

\* One row of character_loot_assignment_counts.csv (720-739).
counts_row(cid) ==
    [char_id |-> cid,
     character_name |-> resolved_name(Max({i \in Rows : assigned_char_id[i] = cid})),
     items_assigned |-> count_global(cid)]

WriteOutputs ==
    /\ pc = "alloc" /\ queue = <<>>
    /\ out_rows' = [i \in Rows |-> row_out(i)]
    /\ assigned_character_name' = [i \in Rows |-> resolved_name(i)]
    /\ counts_rows' =
          LET order == counts_sorted({assigned_char_id[i] : i \in Rows} \ {""})
          IN  [j \in 1..Len(order) |-> counts_row(order[j])]
    /\ n_new' = Cardinality({i \in Rows \ manual_only_indices :
                                assigned_char_id[i] # "" \/ resolved_name(i) # ""})
    /\ pc' = "done"
    /\ UNCHANGED <<inputs, loot_rows, clear_assignments, assigned_char_id,
                   assigned_via_magelo, manual_only_indices, n_preserved, queue, cur_acc,
                   dkp_spent_per_char, count_per_char, item_count_per_char, seen,
                   run_no, prev_out, files, ledger_from>>

\* The state of a fresh process that is about to run main() once more.
Restart ==
    /\ run_no' = run_no + 1
    /\ prev_out' = out_rows
    /\ pc' = "main"
    /\ loot_rows' = <<>>
    /\ assigned_char_id' = <<>>
    /\ assigned_character_name' = <<>>
    /\ assigned_via_magelo' = <<>>
    /\ manual_only_indices' = {}
    /\ n_preserved' = 0
    /\ queue' = <<>>
    /\ cur_acc' = ""
    /\ dkp_spent_per_char' = <<>>
    /\ count_per_char' = <<>>
    /\ item_count_per_char' = <<>>
    /\ seen' = <<>>
    /\ out_rows' = <<>>
    /\ counts_rows' = <<>>
    /\ n_new' = 0
    /\ UNCHANGED inputs

\* The engine is run again, incrementally, on the ledger it has just written.
Rerun ==
    /\ pc = "done" /\ run_no < MaxRuns
    /\ ~clear_assignments
    /\ files' = [files EXCEPT !.raid_loot_csv = out_rows, !.raid_loot_exists = TRUE]
    /\ ledger_from' = "own_output"
    /\ UNCHANGED clear_assignments
    /\ Restart

\* raid_loot.csv with the assigned owner of every row not flagged manual removed.
blanked(csv) ==
    [i \in DOMAIN csv |->
        IF is_explicit_manual(load_raid_loot([raid_loot_exists |-> TRUE,
                                              raid_loot_csv |-> csv])[i])
        THEN csv[i]
        ELSE [csv[i] EXCEPT !.assigned_char_id = "", !.assigned_character_name = ""]]

\* After a recompute run on the operator's ledger, the engine is run
\* incrementally on that same ledger with the non-manual assignments blanked.
RerunBlanked ==
    /\ pc = "done" /\ run_no < MaxRuns
    /\ clear_assignments /\ ledger_from = "operator"
    /\ files.raid_loot_exists
    /\ files' = [files EXCEPT !.raid_loot_csv = blanked(files.raid_loot_csv)]
    /\ ledger_from' = "blanked"
    /\ clear_assignments' = FALSE
    /\ Restart

\* raid_loot.csv without its rows flagged manual.
without_manual(csv) ==
    LET loaded == load_raid_loot([raid_loot_exists |-> TRUE, raid_loot_csv |-> csv])
        keep == {i \in DOMAIN csv : ~is_explicit_manual(loaded[i])}
        RECURSIVE pick(_)
        pick(i) == IF i > Len(csv) THEN <<>>
                   ELSE (IF i \in keep THEN <<csv[i]>> ELSE <<>>) \o pick(i + 1)
    IN  pick(1)

\* After a run on the operator's ledger, the engine is run in the same mode
\* on that ledger with the rows flagged manual taken out.
RerunWithoutManual ==
    /\ pc = "done" /\ run_no < MaxRuns
    /\ ledger_from = "operator"
    /\ files.raid_loot_exists
    /\ without_manual(files.raid_loot_csv) # files.raid_loot_csv
    /\ files' = [files EXCEPT !.raid_loot_csv = without_manual(files.raid_loot_csv)]
    /\ ledger_from' = "manual_removed"
    /\ UNCHANGED clear_assignments
    /\ Restart

(***************************************************************************)
(* Input files.                                                            *)
(***************************************************************************)

\* Copies of one item a character may hold in the snapshots below.
MaxHeld == 2

CharIds == {"1", "2", "10"}

\* characters.csv
CharactersCsv ==
    << [char_id |-> "1", name |-> "Aldo", class_name |-> "Warrior"],
       [char_id |-> "2", name |-> "Bea", class_name |-> "Wizard"],
       [char_id |-> "10", name |-> "Cy", class_name |-> "Monk"] >>

\* TAKP_character.txt: the snapshot has its own ids and its own casing of names.
MageloCharacterFile ==
    << [name |-> "Aldo", id |-> "71"],
       [name |-> "bea", id |-> "72"],
       [name |-> "Cy", id |-> "73"] >>

MageloIdOf(c) == CASE c = "1" -> "71" [] c = "2" -> "72" [] OTHER -> "73"

\* raids.csv: raid 2 took place before raids 1 and 3, which share a date.
RaidsCsv == [r \in {"1", "2", "3"} |-> IF r = "2" THEN "2024-01-01" ELSE "2024-02-01"]

CA(c, a) == [char_id |-> c, account_id |-> a]

\* character_account.csv
CharacterAccountFiles ==
    { << CA("1", "20"), CA("2", "20") >>,
      << CA("1", "10"), CA("2", "10") >>,
      << CA("2", "20"), CA("10", "20"), CA("1", "9"), CA("10", "9") >> }

Item(cid, slot, id, name) == [cid |-> cid, slot_id |-> slot, item_id |-> id, item_name |-> name]

RECURSIVE Copies(_, _)
Copies(n, x) == IF n = 0 THEN <<>> ELSE <<x>> \o Copies(n - 1, x)

\* TAKP_character_inventory.txt: cloaks[c] cloaks on c and, with talisman,
\* one Talisman of Vah Kerrath on character 1.
InventoryFile(cloaks, talisman) ==
    Copies(cloaks["1"], Item(MageloIdOf("1"), "8", "1001", "Cloak of Embers"))
    \o (IF talisman THEN <<Item(MageloIdOf("1"), "22", "2002", "Talisman of Vah Kerrath")>>
        ELSE <<>>)
    \o Copies(cloaks["2"], Item(MageloIdOf("2"), "8", "1001", "Cloak  of Embers"))
    \o Copies(cloaks["10"], Item(MageloIdOf("10"), "8", "1001", "Cloak of Embers"))

Holdings(a, b, c) == [x \in CharIds |-> IF x = "1" THEN a ELSE IF x = "2" THEN b ELSE c]

InventoryFiles ==
    { InventoryFile(Holdings(1, 1, 0), FALSE),
      InventoryFile(Holdings(1, 0, 0), TRUE),
      InventoryFile(Holdings(MaxHeld, 1, 1), FALSE) }

\* Lines 492-517 of run().
loaded_inputs(character_account_csv, inventory_file, elemental_json, dkp_purchases, elemental_extra_names) ==
    LET ca == load_character_account(character_account_csv)
        ch == load_characters(CharactersCsv)
        mc == load_magelo_character_file(MageloCharacterFile)
        inv == load_magelo_inventory(inventory_file)
        em == load_dkp_elemental_map(dkp_purchases)
    IN  [ raids |-> RaidsCsv,
          char_to_account |-> ca.c2a,
          account_to_chars |-> ca.a2c,
          name_to_char |-> ch.name_to_cid,
          dkp_char_id_to_name |-> ch.cid_to_name,
          char_id_to_class |-> load_character_classes(CharactersCsv),
          magelo_names_to_id |-> mc.name_to_id,
          magelo_id_to_name |-> mc.id_to_name,
          magelo_inv |-> inv,
          elemental_ids |-> elemental_json,
          dkp_elemental_map |-> em.out_map,
          elemental_source_norm |->
              build_elemental_item_names(inv, elemental_json, elemental_extra_names)
                  \cup em.names_set,
          dkp_to_magelo_id |-> build_dkp_to_magelo_id(ch.cid_to_name, mc.name_to_id) ]

\* One row of raid_loot.csv.
LootRow(raid, item, buyer, cost, prior) ==
    [raid_id |-> raid, event_id |-> "1", item_name |-> item,
     char_id |-> buyer[1], character_name |-> buyer[2], cost |-> cost,
     assigned_char_id |-> prior[1], assigned_character_name |-> prior[2],
     assigned_via_magelo |-> prior[3], manual_assignment |-> prior[4]]

Unassigned == <<"", "", "", "">>

\* (char_id, character_name) of the buyer.
Buyers == { <<"1", "Aldo">>, <<"10", "Cy">>, <<"", "bea">>, <<"", "">> }

\* (assigned_char_id, assigned_character_name, assigned_via_magelo, manual_assignment)
Priors ==
    { Unassigned,
      <<"", "", "0", "">>,
      <<"1", "Aldo", "1", "">>,
      <<"2", "Bea", "0", "">>,
      <<"1", "Aldo", "", "">>,
      <<"", "Bea", "1", "">>,
      <<"2", "", "0", "1">>,
      <<"1", "Aldo", "1", "1">> }

RowChoices ==
    {LootRow("1", "Cloak of Embers", b, "1", Unassigned) : b \in Buyers}
    \cup {LootRow("1", "Cloak of Embers", <<"1", "Aldo">>, "1", p) : p \in Priors}
    \cup {LootRow("1", "Cloak of Embers", <<"1", "Aldo">>, "abc", Unassigned),
          LootRow("2", "Cloak of Embers", <<"1", "Aldo">>, "5 ", Unassigned),
          LootRow("1", "Soul Essence of Aten Ha Ra", <<"1", "Aldo">>, "", Unassigned)}

\* The files main() finds on disk when every one of them exists.
AllFiles(csv) ==
    [raid_loot_exists |-> TRUE, raid_loot_csv |-> csv,
     char_file_exists |-> TRUE, inv_file_exists |-> TRUE]

\* The state in which main() is entered.
InitWith(file, clear, loaded) ==
    /\ files = file
    /\ clear_assignments = clear
    /\ inputs = loaded
    /\ ledger_from = "operator"
    /\ loot_rows = <<>>
    /\ pc = "main"
    /\ assigned_char_id = <<>>
    /\ assigned_character_name = <<>>
    /\ assigned_via_magelo = <<>>
    /\ manual_only_indices = {}
    /\ n_preserved = 0
    /\ queue = <<>>
    /\ cur_acc = ""
    /\ dkp_spent_per_char = <<>>
    /\ count_per_char = <<>>
    /\ item_count_per_char = <<>>
    /\ seen = <<>>
    /\ out_rows = <<>>
    /\ counts_rows = <<>>
    /\ n_new = 0
    /\ run_no = 1
    /\ prev_out = <<>>

\* Ledgers of exact-name purchases over every directory and snapshot above.
InitLedger ==
    \E csv \in [1..MaxRows -> RowChoices], clear \in BOOLEAN,
       ca \in CharacterAccountFiles, inv \in InventoryFiles :
        InitWith(AllFiles(csv), clear, loaded_inputs(ca, inv, {}, <<>>, {}))

\* One of raid_loot.csv, TAKP_character.txt, TAKP_character_inventory.txt is missing.
InitMissingFile ==
    \E missing \in {"raid_loot", "char_file", "inv_file"}, clear \in BOOLEAN,
       ca \in CharacterAccountFiles, inv \in InventoryFiles :
        InitWith([raid_loot_exists |-> missing # "raid_loot", raid_loot_csv |-> <<>>,
                  char_file_exists |-> missing # "char_file",
                  inv_file_exists |-> missing # "inv_file"],
                 clear, loaded_inputs(ca, inv, {}, <<>>, {}))

\* A snapshot in which character 1 holds a cloak and an item whose name
\* column is empty.
InventoryBlankName ==
    << Item(MageloIdOf("1"), "8", "1001", "Cloak of Embers"),
       Item(MageloIdOf("1"), "23", "0", "") >>

\* Rows with an empty item name, and rows with no buyer reference.
RowChoicesMalformed ==
    { LootRow("1", "", <<"1", "Aldo">>, "1", Unassigned),
      LootRow("1", "", <<"1", "Aldo">>, "1", <<"2", "Bea", "1", "">>),
      LootRow("1", "Cloak of Embers", <<"", "">>, "1", Unassigned),
      LootRow("1", "Cloak of Embers", <<"", "">>, "1", <<"2", "Bea", "1", "">>) }

InitMalformed ==
    \E csv \in [1..MaxRows -> RowChoicesMalformed], clear \in BOOLEAN,
       inv \in {InventoryBlankName, InventoryFile(Holdings(1, 1, 0), FALSE)} :
        InitWith(AllFiles(csv), clear,
                 loaded_inputs(<< CA("1", "20"), CA("2", "20") >>, inv, {}, <<>>, {}))

\* elemental_armor.json: plate bracer and boots, silk bracer and boots, and an
\* item id that ELEMENTAL_ARMOR_TYPE does not cover.
ElementalCatalog == {"16374", "16375", "16388", "16389", "16400"}

\* Snapshots with elemental armor: character 1 is a warrior (plate), character
\* 2 a wizard (silk).
ElementalInventoryFiles ==
    { << Item(MageloIdOf("1"), "19", "16375", "Greaves of Storm"),
         Item(MageloIdOf("2"), "8", "1001", "Cloak of Embers") >>,
      << Item(MageloIdOf("1"), "9", "16374", "Bracer of Storm"),
         Item(MageloIdOf("1"), "10", "16374", "Bracer of Storm"),
         Item(MageloIdOf("2"), "9", "16388", "Bracer of Flame") >>,
      << Item(MageloIdOf("1"), "8", "1001", "Cloak of Embers"),
         Item(MageloIdOf("2"), "19", "16400", "Runed Boots") >>,
      << Item(MageloIdOf("1"), "19", "16389", "Slippers of Flame"),
         Item(MageloIdOf("2"), "19", "16375", "Greaves of Storm") >>,
      << Item(MageloIdOf("2"), "19", "16389", "Slippers of Flame") >> }

\* Purchase names given with --elemental-source-name.
ElementalExtraNames ==
    {"Elemental Boot Mold", "Elemental Bracer Mold", "Elemental Silk Boot Pattern"}

\* dkp_purchases of dkp_elemental_to_magelo.json; the bracer mold has no entry
\* for wizards.
DkpElementalJson ==
    << [name |-> "Elemental Boot Mold",
        magelo_item_ids_by_class |-> [war |-> "16375", wiz |-> "16389"]],
       [name |-> "Elemental Bracer Mold",
        magelo_item_ids_by_class |-> [war |-> "16374"]] >>

RowChoicesElemental ==
    {LootRow("1", n, <<"1", "Aldo">>, "1", Unassigned) : n \in ElementalExtraNames}

\* Ledgers of elemental purchases, matched through the per-class id map or,
\* without it, through armor type and slot.
InitElemental ==
    \E csv \in [1..MaxRows -> RowChoicesElemental], clear \in BOOLEAN,
       inv \in ElementalInventoryFiles, with_json \in BOOLEAN :
        InitWith(AllFiles(csv), clear,
                 loaded_inputs(<< CA("1", "20"), CA("2", "20") >>, inv, ElementalCatalog,
                               IF with_json THEN DkpElementalJson ELSE <<>>,
                               IF with_json THEN {} ELSE ElementalExtraNames))

\* The id column of the i-th row of a ledger fetched from the database.
IdOf(i) == CASE i = 1 -> "101" [] i = 2 -> "102" [] i = 3 -> "103" [] OTHER -> "104"

\* Rows of a ledger that has an id column and a column the engine does not
\* know; one item name is preceded by a blank.
RowChoicesColumns ==
    { LootRow("1", " Cloak of Embers", <<"1", "Aldo">>, "1", Unassigned),
      LootRow("2", "Cloak of Embers", <<"1", "Aldo">>, "5 ", <<"2", "Bea", "1", "">>) }

InitColumns ==
    \E base \in [1..MaxRows -> RowChoicesColumns], clear \in BOOLEAN :
        InitWith(AllFiles([i \in 1..MaxRows |->
                              base[i] @@ ("id" :> IdOf(i)) @@ ("note" :> "checked")]),
                 clear,
                 loaded_inputs(<< CA("1", "20"), CA("2", "20") >>,
                               InventoryFile(Holdings(1, 1, 0), FALSE), {}, <<>>, {}))

\* Undecided purchases of one item by one buyer in raids 1 and 3 (same date),
\* raid 2 (earlier date), and in two events of each raid.
RowChoicesChronology ==
    { [LootRow(raid, "Cloak of Embers", <<"1", "Aldo">>, "1", Unassigned)
          EXCEPT !.event_id = ev] : raid \in {"1", "2", "3"}, ev \in {"1", "2"} }

\* Ledgers whose file order differs from the raid order; the account holds
\* one copy, or one copy on each of two characters.
InitChronology ==
    \E csv \in [1..MaxRows -> RowChoicesChronology], clear \in BOOLEAN,
       inv \in {InventoryFile(Holdings(1, 0, 0), FALSE),
                InventoryFile(Holdings(1, 1, 0), FALSE)} :
        InitWith(AllFiles(csv), clear,
                 loaded_inputs(<< CA("1", "20"), CA("2", "20") >>, inv, {}, <<>>, {}))

\* characters.csv without the class column filled in.
CharactersCsvNoClass ==
    [i \in DOMAIN CharactersCsv |-> [CharactersCsv[i] EXCEPT !.class_name = ""]]

\* A snapshot with elemental armor, a talisman and two cloaks.
InventoryNoReference ==
    << Item(MageloIdOf("1"), "19", "16375", "Greaves of Storm"),
       Item(MageloIdOf("1"), "22", "2002", "Talisman of Vah Kerrath"),
       Item(MageloIdOf("2"), "8", "1001", "Cloak of Embers"),
       Item(MageloIdOf("2"), "23", "1001", "Cloak  of Embers") >>

RowChoicesNoReference ==
    {LootRow("1", n, <<"1", "Aldo">>, "1", Unassigned) :
        n \in {"Elemental Boot Mold", "Greaves of Storm", "Cloak of Embers",
               "Soul Essence of Aten Ha Ra", "Talisman of Vah Kerrath"}}

\* Ledgers processed without elemental_armor.json, without
\* dkp_elemental_to_magelo.json, without --elemental-source-name and without
\* character classes.
InitNoReference ==
    \E csv \in [1..MaxRows -> RowChoicesNoReference], clear \in BOOLEAN :
        InitWith(AllFiles(csv), clear,
                 [loaded_inputs(<< CA("1", "20"), CA("2", "20") >>, InventoryNoReference,
                                {}, <<>>, {})
                     EXCEPT !.char_id_to_class = load_character_classes(CharactersCsvNoClass)])

Init ==
    \/ InitLedger
    \/ InitMissingFile
    \/ InitMalformed
    \/ InitElemental
    \/ InitColumns
    \/ InitChronology
    \/ InitNoReference

Next ==
    \/ MainMissingFile
    \/ MainRun
    \/ Prepass
    \/ AllocSkipManual
    \/ AllocFoldExisting
    \/ AllocCostError
    \/ AllocDecide
    \/ WriteOutputs
    \/ Rerun
    \/ RerunBlanked
    \/ RerunWithoutManual

Spec == Init /\ [][Next]_vars


(***************************************************************************)
(* Properties.                                                             *)
(***************************************************************************)

\* Rows that reached the decision at 609-685 in this run and got an owner.
NewlyAssigned == {i \in DOMAIN seen : assigned_char_id[i] # ""}

\* Held-count of character c for a purchase name in the inventory snapshot.
HeldCount(c, item_name) == magelo_count_per_toon(item_name, <<c>>)[c]

ItemKey(i) == normalize_item_name(loot_rows[i].item_name)

C2_Idempotent ==
    (pc = "done" /\ run_no = 2 /\ ledger_from = "own_output") => out_rows = prev_out

BuyerAccount(i) ==
    resolve_buyer_account(loot_rows[i], inputs.char_to_account, inputs.name_to_char)

\* The two members of a two-character account, lower identifier first
\* (identifiers are strings, compared as Python compares str).
LowerOf(toons) == IF StrLess(toons[1], toons[2]) THEN toons[1] ELSE toons[2]
HigherOf(toons) == IF StrLess(toons[1], toons[2]) THEN toons[2] ELSE toons[1]

\* Scenario B: rows i then j are purchases of one item by a two-character
\* account whose members hold exactly one copy each; i finds no prior
\* assignment and all running totals at zero, j finds what i left.
ScenarioB(i, j) ==
    /\ i \in DOMAIN seen /\ j \in DOMAIN seen
    /\ BuyerAccount(i) = seen[i].acc /\ BuyerAccount(j) = seen[i].acc
    /\ seen[i].at < seen[j].at
    /\ ItemKey(i) = ItemKey(j)
    /\ Len(seen[i].toons) = 2 /\ seen[i].toons[1] # seen[i].toons[2]
    /\ \A c \in DOMAIN seen[i].caps : seen[i].caps[c] = 1
    /\ seen[i].spent = <<>> /\ seen[i].count = <<>> /\ seen[i].items = <<>>
    /\ seen[j].spent = seen[i].spent_out
    /\ seen[j].count = seen[i].count_out
    /\ seen[j].items = seen[i].items_out

\* C4 (as claimed): in Scenario B the first purchase goes to the character with
\* the lower identifier, the second to the other.
C4_ScenarioB_LowerFirst ==
    \A i, j \in Rows :
        ScenarioB(i, j) =>
            /\ assigned_char_id[i] = LowerOf(seen[i].toons)
            /\ assigned_char_id[j] = HigherOf(seen[i].toons)

\* C4 (amended): in Scenario B the first purchase goes to the character whose
\* identifier is the greater one in string order, the second to the other
\* character because the first is then at cap.
C4_ScenarioB_HigherFirst ==
    \A i, j \in Rows :
        ScenarioB(i, j) =>
            /\ assigned_char_id[i] = HigherOf(seen[i].toons)
            /\ assigned_char_id[j] = LowerOf(seen[i].toons)

\* C4 witness: Scenario B has been played out and the run has finished.
C4_Witness ==
    /\ pc = "done"
    /\ \E i, j \in Rows : ScenarioB(i, j) /\ assigned_char_id[i] # assigned_char_id[j]

\* The buyer character of a row: its char_id, else the character of its name.
BuyerSelf(row) ==
    IF row.char_id # "" THEN row.char_id
    ELSE Or(Get(inputs.name_to_char, row.character_name, ""),
            Get(inputs.name_to_char, normalize_item_name(row.character_name), ""))

\* C5 (as claimed): a row whose buyer resolves to no account, when the run
\* decides it, is left unassigned or assigned to the buyer character itself.
C5_UnknownBuyerOnlySelf ==
    \A i \in DOMAIN seen :
        BuyerAccount(i) = "" => assigned_char_id[i] \in {"", BuyerSelf(loot_rows[i])}

\* C6 (as claimed): no cost value aborts the run.
C6_CostNeverAborts == pc # "crashed"

\* c is the only member of the account of the buyer of decided row i whose
\* held-count for the row's item is > 0.
SoleHolder(i, c) ==
    /\ BuyerAccount(i) = seen[i].acc
    /\ c \in DOMAIN seen[i].caps
    /\ seen[i].caps[c] > 0
    /\ \A d \in DOMAIN seen[i].caps : d # c => seen[i].caps[d] = 0

\* C7 (as claimed): a row that needs a decision and has exactly one account
\* member with held-count > 0 is assigned to that member.
C7_SingleHolderAssigned ==
    \A i \in DOMAIN seen :
        \A c \in DOMAIN seen[i].caps : SoleHolder(i, c) => assigned_char_id[i] = c

\* C7 (amended): a row that needs a decision and has exactly one account member
\* with held-count > 0 is assigned to that member provided the member's
\* consumed count for the item key is still below its held-count.
C7_SingleHolderUnderCap ==
    \A i \in DOMAIN seen :
        \A c \in DOMAIN seen[i].caps :
            (SoleHolder(i, c) /\ Get(seen[i].items, <<c, ItemKey(i)>>, 0) < seen[i].caps[c])
                => assigned_char_id[i] = c

\* C7 witness: a decided row of an account of two whose only holder was under
\* its cap, after the run.
C7_Witness ==
    /\ pc = "done"
    /\ \E i \in DOMAIN seen :
          /\ Len(seen[i].toons) = 2
          /\ \E c \in DOMAIN seen[i].caps :
                /\ SoleHolder(i, c)
                /\ Get(seen[i].items, <<c, ItemKey(i)>>, 0) < seen[i].caps[c]
                /\ assigned_char_id[i] = c

\* No member of the candidate pool of decided row i holds the item.
NoHolder(i) == \A c \in DOMAIN seen[i].caps : seen[i].caps[c] = 0

\* C8: a row that needs a decision while every account member has held-count 0
\* stays unassigned, in the arrays and in the written ledger, and its decision
\* leaves cost_so_far, count_so_far and consumed as it found them.
C8_NoCandidateUnassigned ==
    \A i \in DOMAIN seen :
        NoHolder(i) =>
            /\ assigned_char_id[i] = "" /\ assigned_character_name[i] = ""
            /\ ~assigned_via_magelo[i]
            /\ seen[i].spent_out = seen[i].spent
            /\ seen[i].count_out = seen[i].count
            /\ seen[i].items_out = seen[i].items
            /\ pc = "done" =>
                  /\ out_rows[i].assigned_char_id = ""
                  /\ out_rows[i].assigned_character_name = ""
                  /\ out_rows[i].assigned_via_magelo = "0"

\* C8 witness: the run has finished and a row bought by a member of a
\* two-character account none of whom holds the item was decided.
C8_Witness ==
    /\ pc = "done"
    /\ \E i \in DOMAIN seen :
          /\ NoHolder(i) /\ Len(seen[i].toons) = 2
          /\ out_rows[i].assigned_char_id = ""

\* C9 (as claimed): with --clear-assignments a row that carries an assignment
\* with assigned_via_magelo=0 and no manual flag keeps its owner.
C9_LegacyKeptOnRecompute ==
    (pc = "done" /\ clear_assignments) =>
        \A i \in Rows :
            (/\ ~is_explicit_manual(loot_rows[i])
             /\ loot_rows[i].assigned_via_magelo = "0"
             /\ has_existing_assignment(loot_rows[i]))
                => out_rows[i].assigned_char_id = loot_rows[i].assigned_char_id

\* C10: in incremental mode a row with an assigned owner on input has the same
\* owner id on output, a row whose owner id changes had no prior assignment,
\* and every row assigned on input is assigned on output.
C10_IncrementalKeeps ==
    (pc = "done" /\ ~clear_assignments) =>
        \A i \in Rows :
            /\ loot_rows[i].assigned_char_id # ""
                  => out_rows[i].assigned_char_id = loot_rows[i].assigned_char_id
            /\ out_rows[i].assigned_char_id # loot_rows[i].assigned_char_id
                  => ~has_existing_assignment(loot_rows[i])
            /\ has_existing_assignment(loot_rows[i])
                  => has_existing_assignment(out_rows[i])

\* C10 witness: an incremental run has finished on a ledger in which one row
\* came with a machine-made owner and another row received its owner in the run.
C10_Witness ==
    /\ pc = "done" /\ ~clear_assignments
    /\ \E i, j \in Rows :
          /\ loot_rows[i].assigned_char_id # "" /\ ~is_explicit_manual(loot_rows[i])
          /\ out_rows[i].assigned_char_id = loot_rows[i].assigned_char_id
          /\ j \in NewlyAssigned

Members(acc) ==
    {inputs.account_to_chars[acc][k] : k \in DOMAIN Get(inputs.account_to_chars, acc, <<>>)}

\* C12 (as claimed): every row newly assigned in the run has an owner that is
\* a member of the account its buyer resolves to, or is the buyer itself when
\* the buyer resolves to no account.
C12_OwnerInBuyerAccount ==
    \A i \in NewlyAssigned :
        IF BuyerAccount(i) # ""
        THEN assigned_char_id[i] \in Members(BuyerAccount(i))
        ELSE assigned_char_id[i] = BuyerSelf(loot_rows[i])

\* The row has an empty item name or no buyer reference at all.
Malformed(row) ==
    row.item_name = "" \/ (row.char_id = "" /\ row.character_name = "")

\* C13 (as claimed): a row with an empty item name or with no buyer reference
\* is written with the three assignment columns it was read with, in both run
\* modes and for every inventory snapshot.
C13_MalformedRowSkipped ==
    pc = "done" =>
        \A i \in Rows :
            Malformed(loot_rows[i]) =>
                /\ out_rows[i].assigned_char_id = loot_rows[i].assigned_char_id
                /\ out_rows[i].assigned_character_name = loot_rows[i].assigned_character_name
                /\ out_rows[i].assigned_via_magelo = loot_rows[i].assigned_via_magelo

\* Every order in which the characters of a list can be listed.
Orderings(toons) ==
    {[k \in DOMAIN toons |-> toons[p[k]]] :
        p \in {q \in [DOMAIN toons -> DOMAIN toons] :
                  \A x, y \in DOMAIN toons : q[x] = q[y] => x = y}}

\* The members of the pool of decided row i that hold the item and are under cap.
UnderCap(i) ==
    {c \in DOMAIN seen[i].caps : under_cap_test(c, seen[i].caps, seen[i].items, ItemKey(i))}

\* Under-cap candidates a and b of decided row i are tied on held-count,
\* cost_so_far and count_so_far.
Tied(i, a, b) ==
    /\ a \in UnderCap(i) /\ b \in UnderCap(i) /\ a # b
    /\ seen[i].caps[a] = seen[i].caps[b]
    /\ Get(seen[i].spent, a, 0) = Get(seen[i].spent, b, 0)
    /\ Get(seen[i].count, a, 0) = Get(seen[i].count, b, 0)

\* C14: the decision of a row is the same for every order in which the
\* account lists its characters, and between two tied under-cap candidates the
\* one with the smaller identifier (in string order) is never chosen: the
\* identifiers alone settle the tie.
C14_TieBreakByIdentifier ==
    \A i \in DOMAIN seen :
        /\ \A o \in Orderings(seen[i].toons) :
              chosen_toon(loot_rows[i].item_name, o, seen[i].spent, seen[i].count,
                          seen[i].items) = assigned_char_id[i]
        /\ \A a, b \in UnderCap(i) :
              (Tied(i, a, b) /\ StrLess(a, b)) => assigned_char_id[i] # a

\* C14 witness: a finished run decided a row between two tied candidates and
\* chose the one the account does not list first.
C14_Witness ==
    /\ pc = "done"
    /\ \E i \in DOMAIN seen :
          \E a, b \in UnderCap(i) :
              /\ Tied(i, a, b)
              /\ assigned_char_id[i] = b
              /\ seen[i].toons[1] = a

\* The inventory lines of character c.
InventoryOf(c) ==
    Get(inputs.magelo_inv, Or(Get(inputs.dkp_to_magelo_id, c, ""), c), <<>>)

\* The number of item instances in the inventory of c each of which, alone,
\* makes c a holder of the purchased item.
MatchingCopies(c, item_name) ==
    Cardinality({k \in DOMAIN InventoryOf(c) :
        which_toons_have_item(item_name, <<c>>,
                              (Or(Get(inputs.dkp_to_magelo_id, c, ""), c)
                                   :> <<InventoryOf(c)[k]>>),
                              inputs.elemental_ids, inputs.elemental_source_norm,
                              inputs.dkp_to_magelo_id, ELEMENTAL_ARMOR_TYPE,
                              inputs.char_id_to_class,
                              required_for(item_name)[1], required_for(item_name)[2],
                              elemental_lookup_for(normalize_item_name(item_name)))
            # <<>>})

\* C15 (as claimed): in every matching mode the held-count of a character for
\* a purchase equals the number of matching item instances in its inventory.
C15_HeldCountIsCopies ==
    \A i \in DOMAIN seen :
        \A c \in DOMAIN seen[i].caps :
            seen[i].caps[c] = MatchingCopies(c, loot_rows[i].item_name)

\* The armor material of the class characters.csv gives character c, "" when
\* it gives none.
MaterialOfClass(c) ==
    LET r == {k \in DOMAIN CharactersCsv : CharactersCsv[k].char_id = c}
        cls == IF r = {} THEN "" ELSE CharactersCsv[Max(r)].class_name
    IN  CASE cls = "Warrior" -> "plate"
          [] cls = "Wizard" -> "silk"
          [] cls = "Monk" -> "leather"
          [] OTHER -> ""

\* Decided row i is a convertible purchase whose name gives slots but no
\* material and that is matched by material and slot.
MoldRow(i) ==
    /\ ItemKey(i) \in inputs.elemental_source_norm
    /\ elemental_lookup_for(ItemKey(i)).is_none
    /\ required_for(loot_rows[i].item_name)[1] = ""
    /\ required_for(loot_rows[i].item_name)[2] # {}

\* The catalog items character c holds in a slot required by decided row i.
FamilyItemsInSlot(i, c) ==
    {k \in DOMAIN InventoryOf(c) :
        /\ InventoryOf(c)[k].item_id \in inputs.elemental_ids
        /\ SlotInt(InventoryOf(c)[k].slot_id) \in required_for(loot_rows[i].item_name)[2]}

\* Scenario A at decided row i: of the two characters of the account, a of a
\* plate class holds exactly one catalog item in a required slot, a plate one,
\* b of a silk class holds no catalog item in a required slot, and nothing has
\* been consumed yet.
ScenarioA(i, a, b) ==
    /\ MoldRow(i)
    /\ seen[i].toons \in {<<a, b>>, <<b, a>>} /\ a # b
    /\ MaterialOfClass(a) = "plate" /\ MaterialOfClass(b) = "silk"
    /\ Cardinality(FamilyItemsInSlot(i, a)) = 1
    /\ \A k \in FamilyItemsInSlot(i, a) :
          Get(ELEMENTAL_ARMOR_TYPE, InventoryOf(a)[k].item_id, "") = "plate"
    /\ FamilyItemsInSlot(i, b) = {}
    /\ seen[i].items = <<>>

\* The outcome of Scenario A: the row goes to a and consumed[(a, key)] is 1.
ScenarioAOutcome(i, a) ==
    /\ assigned_char_id[i] = a
    /\ Get(seen[i].items_out, <<a, ItemKey(i)>>, 0) = 1

\* C16 (as claimed): for a convertible purchase whose name gives no material,
\* every candidate holds a catalog item in a required slot whose material is
\* the material of the candidate's own class; and Scenario A ends with the row
\* assigned to the plate character and its consumed count at 1.
C16_MoldMatchesOwnMaterial ==
    \A i \in DOMAIN seen :
        MoldRow(i) =>
            /\ \A k \in DOMAIN candidates_for(loot_rows[i].item_name, seen[i].toons) :
                  LET c == candidates_for(loot_rows[i].item_name, seen[i].toons)[k]
                  IN  \E x \in FamilyItemsInSlot(i, c) :
                          /\ MaterialOfClass(c) # ""
                          /\ Get(ELEMENTAL_ARMOR_TYPE, InventoryOf(c)[x].item_id, "")
                                 = MaterialOfClass(c)
            /\ \A a, b \in DOMAIN seen[i].caps :
                  ScenarioA(i, a, b) => ScenarioAOutcome(i, a)

\* C16 (amended): for a convertible purchase whose name gives no material and
\* that is matched by material and slot, every candidate holds a catalog item in
\* a required slot whose material, when ELEMENTAL_ARMOR_TYPE gives one and the
\* candidate's class is known, is the material of the candidate's class; an
\* item whose material is known to differ never makes a candidate.  Scenario A
\* ends with the row assigned to the plate character and its consumed count at 1.
C16_MoldMatchesKnownMaterial ==
    \A i \in DOMAIN seen :
        MoldRow(i) =>
            /\ \A k \in DOMAIN candidates_for(loot_rows[i].item_name, seen[i].toons) :
                  LET c == candidates_for(loot_rows[i].item_name, seen[i].toons)[k]
                  IN  \E x \in FamilyItemsInSlot(i, c) :
                          LET m == Get(ELEMENTAL_ARMOR_TYPE, InventoryOf(c)[x].item_id, "")
                          IN  m = "" \/ MaterialOfClass(c) = "" \/ m = MaterialOfClass(c)
            /\ \A a, b \in DOMAIN seen[i].caps :
                  ScenarioA(i, a, b) => ScenarioAOutcome(i, a)

\* C16 witness: Scenario A has been played out in a finished run.
C16_Witness ==
    /\ pc = "done"
    /\ \E i \in DOMAIN seen :
          \E a, b \in DOMAIN seen[i].caps : ScenarioA(i, a, b) /\ ScenarioAOutcome(i, a)

\* The rows of the written ledger whose owner id is c.
OutRowsOf(c) == {i \in DOMAIN out_rows : out_rows[i].assigned_char_id = c}

\* C17: the summary has exactly one record for each character id that owns at
\* least one row of the written ledger and no other record; items_assigned is
\* the number of written rows the character owns; the records are in
\* non-increasing order of items_assigned, and records with equal counts are in
\* the order in which their characters first appear as owners in the ledger.
C17_SummaryCounts ==
    pc = "done" =>
        LET owners == {out_rows[i].assigned_char_id : i \in DOMAIN out_rows} \ {""}
        IN  /\ {counts_rows[k].char_id : k \in DOMAIN counts_rows} = owners
            /\ Len(counts_rows) = Cardinality(owners)
            /\ \A k \in DOMAIN counts_rows :
                  counts_rows[k].items_assigned
                      = Cardinality(OutRowsOf(counts_rows[k].char_id))
            /\ \A k, l \in DOMAIN counts_rows :
                  k < l =>
                      /\ counts_rows[k].items_assigned >= counts_rows[l].items_assigned
                      /\ counts_rows[k].items_assigned = counts_rows[l].items_assigned
                            => Min(OutRowsOf(counts_rows[k].char_id))
                                  < Min(OutRowsOf(counts_rows[l].char_id))

\* C17 witness: the summary of a finished run has two records with equal
\* counts, the first for the character with the greater identifier, one of
\* them for a row kept as manual.
C17_Witness ==
    /\ pc = "done" /\ Len(counts_rows) >= 2
    /\ StrLess(counts_rows[2].char_id, counts_rows[1].char_id)
    /\ counts_rows[1].items_assigned = counts_rows[2].items_assigned
    /\ manual_only_indices # {}

\* The rows the preservation pass counted in n_preserved.
PreservedRows ==
    {i \in Rows : preserve_branch(loot_rows[i], clear_assignments) # "undecided"}

\* The rows the sum at 745-748 counts in n_new.
CountedAsNew ==
    {i \in Rows \ manual_only_indices :
        assigned_char_id[i] # "" \/ assigned_character_name[i] # ""}

\* C18 (as claimed): in the run summary the rows counted as preserved and the
\* rows counted as newly decided are disjoint, the newly-decided count is the
\* number of rows that reached the decision and received an owner in this run,
\* and preserved + newly decided is at most the number of ledger rows.
C18_SummaryPartition ==
    pc = "done" =>
        /\ PreservedRows \cap CountedAsNew = {}
        /\ n_new = Cardinality(NewlyAssigned)
        /\ n_preserved + n_new <= Len(loot_rows)

\* C19 (as claimed): when raid_loot.csv or the inventory snapshot is missing,
\* the program stops with an error before any processing: run() is never
\* entered and neither output file is written.
C19_MissingInputFailsFast ==
    (~files.raid_loot_exists \/ ~files.inv_file_exists) => pc \in {"main", "exit1"}

AssignmentColumns == {"assigned_char_id", "assigned_character_name", "assigned_via_magelo"}

\* C20 (as claimed): the written ledger has the rows of raid_loot.csv in the
\* same order, and every column of every row other than the three assignment
\* columns is written with the value it was read with.
C20_OnlyAssignmentColumnsChange ==
    pc = "done" =>
        /\ Len(out_rows) = Len(files.raid_loot_csv)
        /\ \A i \in DOMAIN files.raid_loot_csv :
              \A k \in DOMAIN files.raid_loot_csv[i] \ AssignmentColumns :
                  /\ k \in DOMAIN out_rows[i]
                  /\ out_rows[i][k] = files.raid_loot_csv[i][k]

\* C20 (amended): the written ledger has the rows of raid_loot.csv in the same
\* order; in every row the id column (when the file has one), raid_id,
\* event_id, item_name, char_id, character_name, cost and the manual flag are
\* written with the value read, stripped of leading and trailing whitespace;
\* no column other than these and the three assignment columns is written.
C20_KnownColumnsKeptStripped ==
    pc = "done" =>
        /\ Len(out_rows) = Len(files.raid_loot_csv)
        /\ \A i \in DOMAIN files.raid_loot_csv :
              LET kept == {"id", "raid_id", "event_id", "item_name", "char_id",
                           "character_name", "cost", "manual_assignment", "manual"}
              IN  /\ \A k \in DOMAIN files.raid_loot_csv[i] \cap kept :
                        /\ k \in DOMAIN out_rows[i]
                        /\ out_rows[i][k] = strip(files.raid_loot_csv[i][k])
                  /\ DOMAIN out_rows[i] \subseteq kept \cup AssignmentColumns

\* C20 witness: a finished run on a ledger with an id column, in which a row
\* whose item name had a leading blank received an owner.
C20_Witness ==
    /\ pc = "done"
    /\ \E i \in DOMAIN files.raid_loot_csv :
          /\ "id" \in DOMAIN files.raid_loot_csv[i]
          /\ out_rows[i].id = files.raid_loot_csv[i].id
          /\ out_rows[i].item_name # files.raid_loot_csv[i].item_name
          /\ out_rows[i].assigned_char_id # files.raid_loot_csv[i].assigned_char_id

\* The place of row i in the order in which the run visits the rows.
VisitPos(i) ==
    LET order == visit_order(account_order(1, {}))
    IN  CHOOSE k \in DOMAIN order : order[k][2] = i

\* Row i is visited before row j in the same pass over one account.
EarlierInAccount(i, j) ==
    /\ loot_by_account_key(loot_rows[i]) = loot_by_account_key(loot_rows[j])
    /\ VisitPos(i) < VisitPos(j)

\* Row i is kept in incremental mode with a prior owner id, carries no manual
\* flag and was not read with assigned_via_magelo=0.
FoldedRow(i) ==
    /\ ~clear_assignments
    /\ ~is_explicit_manual(loot_rows[i])
    /\ loot_rows[i].assigned_char_id # ""
    /\ loot_rows[i].assigned_via_magelo # "0"

\* Row i is kept in incremental mode with a prior owner id and carries no
\* manual flag, whatever its assigned_via_magelo.
KeptNonManualRow(i) ==
    /\ ~clear_assignments
    /\ ~is_explicit_manual(loot_rows[i])
    /\ loot_rows[i].assigned_char_id # ""

RECURSIVE SumCost(_)
SumCost(S) ==
    IF S = {} THEN 0
    ELSE LET i == CHOOSE x \in S : TRUE
         IN  CostVal(loot_rows[i].cost) + SumCost(S \ {i})

\* The counters decided row j finds are exactly what the rows of Kept owned by
\* X and the rows decided for X, visited earlier in the account, add up to.
CountersAddUp(j, Kept) ==
    \A X \in CharIds :
        LET from == {i \in Rows : /\ EarlierInAccount(i, j)
                                  /\ assigned_char_id[i] = X
                                  /\ i \in DOMAIN seen \/ i \in Kept}
        IN  /\ Get(seen[j].count, X, 0) = Cardinality(from)
            /\ Get(seen[j].spent, X, 0) = SumCost(from)
            /\ \A k \in {ItemKey(i) : i \in Rows} :
                  Get(seen[j].items, <<X, k>>, 0)
                      = Cardinality({i \in from : ItemKey(i) = k
                                                  /\ (k # "" \/ i \in DOMAIN seen)})

\* The kept rows of Kept owned by X, with the item of row j, visited before j,
\* have used up the held-count of X.
KeptReachedCap(j, X, Kept) ==
    /\ X \in DOMAIN seen[j].caps /\ seen[j].caps[X] > 0 /\ ItemKey(j) # ""
    /\ Cardinality({i \in Kept : /\ EarlierInAccount(i, j)
                                 /\ assigned_char_id[i] = X
                                 /\ ItemKey(i) = ItemKey(j)}) >= seen[j].caps[X]

\* C21 (as claimed): in incremental mode every kept row with a non-manual
\* prior owner X, whatever its assigned_via_magelo, adds 1 to count_so_far[X],
\* its cost to cost_so_far[X] and 1 to consumed[(X, key)] as seen by the later
\* rows of the account, so a later purchase is not assigned to X once such rows
\* have reached the held-count of X.
C21_EveryKeptRowFolded ==
    \A j \in DOMAIN seen :
        LET Kept == {i \in Rows : KeptNonManualRow(i)}
        IN  /\ CountersAddUp(j, Kept)
            /\ \A X \in CharIds : KeptReachedCap(j, X, Kept) => assigned_char_id[j] # X

\* C21 (amended): the same for the kept rows that were not read with
\* assigned_via_magelo=0; a row read with assigned_via_magelo=0 and an
\* assignment is treated as manual and adds nothing.
C21_KeptMachineRowFolded ==
    \A j \in DOMAIN seen :
        LET Kept == {i \in Rows : FoldedRow(i)}
        IN  /\ CountersAddUp(j, Kept)
            /\ \A X \in CharIds : KeptReachedCap(j, X, Kept) => assigned_char_id[j] # X

\* C21 witness: an incremental run has finished in which a purchase was not
\* assigned to a holder whose kept rows had used up its held-count.
C21_Witness ==
    /\ pc = "done" /\ ~clear_assignments
    /\ \E j \in DOMAIN seen :
          \E X \in CharIds :
              /\ KeptReachedCap(j, X, {i \in Rows : FoldedRow(i)})
              /\ assigned_char_id[j] # X

\* When row i is decided, character c of the pool holds the item and its
\* consumed count for the item key is below its held-count.
CanTake(i, c) ==
    /\ Get(seen[i].caps, c, 0) > 0
    /\ Get(seen[i].items, <<c, ItemKey(i)>>, 0) < Get(seen[i].caps, c, 0)

\* C22: a row is newly assigned to c only if, when it is decided, c has a
\* held-count above 0 and a consumed count for the item key below it; and a
\* row for which some member of the pool is in that position is assigned.
C22_AssignedIffSomeoneCanTake ==
    \A i \in DOMAIN seen :
        /\ assigned_char_id[i] # "" => CanTake(i, assigned_char_id[i])
        /\ (\E c \in DOMAIN seen[i].caps : CanTake(i, c)) => assigned_char_id[i] # ""

\* C22 witness: the run has finished; a row was assigned to a member under its
\* cap although the first holder in the pool had used up its held-count.
C22_Witness ==
    /\ pc = "done"
    /\ \E i \in NewlyAssigned :
          /\ Len(seen[i].toons) = 2
          /\ seen[i].caps[seen[i].toons[1]] > 0
          /\ ~CanTake(i, seen[i].toons[1])
          /\ assigned_char_id[i] = seen[i].toons[2]

\* Candidate a of decided row i ranks above candidate b: more cost_so_far,
\* then more count_so_far, then the greater identifier.
RanksAbove(i, a, b) ==
    \/ Get(seen[i].spent, a, 0) > Get(seen[i].spent, b, 0)
    \/ /\ Get(seen[i].spent, a, 0) = Get(seen[i].spent, b, 0)
       /\ Get(seen[i].count, a, 0) > Get(seen[i].count, b, 0)
    \/ /\ Get(seen[i].spent, a, 0) = Get(seen[i].spent, b, 0)
       /\ Get(seen[i].count, a, 0) = Get(seen[i].count, b, 0)
       /\ StrLess(b, a)

\* The decision of row i added the cost of the row to cost_so_far of owner c,
\* 1 to its count_so_far and 1 to its consumed count of the item key, and
\* nothing else.
DecisionAdds(i, c) ==
    /\ seen[i].spent_out = Inc(seen[i].spent, c, CostVal(loot_rows[i].cost))
    /\ seen[i].count_out = Inc(seen[i].count, c, 1)
    /\ seen[i].items_out = Inc(seen[i].items, <<c, ItemKey(i)>>, 1)

\* C23: a row with several under-cap candidates is assigned to the one with
\* the greatest (cost_so_far, count_so_far, identifier); every new assignment
\* adds the cost of the row, 1 and 1 to the three counters of the owner; so a
\* candidate with more cost_so_far always wins against one with less.
C23_RichestCandidateWins ==
    \A i \in DOMAIN seen :
        /\ Cardinality({c \in DOMAIN seen[i].caps : CanTake(i, c)}) >= 2 =>
              /\ CanTake(i, assigned_char_id[i])
              /\ \A b \in DOMAIN seen[i].caps :
                    (CanTake(i, b) /\ b # assigned_char_id[i])
                        => RanksAbove(i, assigned_char_id[i], b)
              /\ \A a, b \in DOMAIN seen[i].caps :
                    (CanTake(i, a) /\ CanTake(i, b)
                     /\ Get(seen[i].spent, a, 0) > Get(seen[i].spent, b, 0))
                        => assigned_char_id[i] # b
        /\ assigned_char_id[i] # "" => DecisionAdds(i, assigned_char_id[i])

\* C23 witness: the run has finished; of two under-cap candidates the one with
\* more cost_so_far and the smaller identifier was assigned the row.
C23_Witness ==
    /\ pc = "done"
    /\ \E i \in NewlyAssigned :
          \E b \in DOMAIN seen[i].caps :
              /\ CanTake(i, b) /\ CanTake(i, assigned_char_id[i])
              /\ Get(seen[i].spent, assigned_char_id[i], 0) > Get(seen[i].spent, b, 0)
              /\ StrLess(assigned_char_id[i], b)

\* Row i comes before row j in ascending (raid date, raid_id, event_id,
\* position in the file), strings compared as strings.
ComesBefore(i, j) ==
    LET di == Get(RaidsCsv, loot_rows[i].raid_id, "")
        dj == Get(RaidsCsv, loot_rows[j].raid_id, "")
    IN  \/ StrLess(di, dj)
        \/ di = dj /\ StrLess(loot_rows[i].raid_id, loot_rows[j].raid_id)
        \/ /\ di = dj /\ loot_rows[i].raid_id = loot_rows[j].raid_id
           /\ StrLess(loot_rows[i].event_id, loot_rows[j].event_id)
        \/ /\ di = dj /\ loot_rows[i].raid_id = loot_rows[j].raid_id
           /\ loot_rows[i].event_id = loot_rows[j].event_id
           /\ i < j

\* Decided rows i and j of one account buy the same item, and when i is
\* decided the pool holds one copy of it in all, not yet consumed.
CompeteForOneCopy(i, j) ==
    /\ i # j /\ seen[i].acc = seen[j].acc /\ ItemKey(i) = ItemKey(j)
    /\ \E c \in DOMAIN seen[i].caps :
          /\ seen[i].caps[c] = 1
          /\ Get(seen[i].items, <<c, ItemKey(i)>>, 0) = 0
          /\ \A d \in DOMAIN seen[i].caps \ {c} : seen[i].caps[d] = 0

\* C24: the rows of an account are decided in ascending (raid date, raid_id,
\* event_id, position in the file), wherever they stand in the file; and of
\* two undecided purchases of one item competing for a single held copy the
\* one with the smaller key is assigned and the other is left unassigned.
C24_DecidedInRaidOrder ==
    \A i, j \in DOMAIN seen :
        /\ (i # j /\ seen[i].acc = seen[j].acc)
              => (seen[i].at < seen[j].at <=> ComesBefore(i, j))
        /\ (CompeteForOneCopy(i, j) /\ ComesBefore(i, j))
              => (assigned_char_id[i] # "" /\ assigned_char_id[j] = "")

\* C24 witness: the run has finished; two purchases of one raid competed for
\* a single copy, and the one standing later in the file, of the earlier
\* event, was assigned while the other was not.
C24_Witness ==
    /\ pc = "done"
    /\ \E i, j \in DOMAIN seen :
          /\ CompeteForOneCopy(i, j) /\ j < i
          /\ loot_rows[i].raid_id = loot_rows[j].raid_id
          /\ StrLess(loot_rows[i].event_id, loot_rows[j].event_id)
          /\ assigned_char_id[i] # "" /\ assigned_char_id[j] = ""

\* The account partition of row i: the account its buyer resolves to, or the
\* buyer alone when it resolves to none.
OwnPartition(i) ==
    IF BuyerAccount(i) # "" THEN <<"account", BuyerAccount(i)>>
    ELSE <<"buyer", BuyerSelf(loot_rows[i])>>

\* The rows of the partition of row j, visited before j, that gave character X
\* a purchase: kept and folded, or newly assigned.
OwnEarlierRows(j, X) ==
    {i \in Rows : /\ OwnPartition(i) = OwnPartition(j)
                  /\ VisitPos(i) < VisitPos(j)
                  /\ assigned_char_id[i] = X
                  /\ i \in DOMAIN seen \/ FoldedRow(i)}

\* C25 (as claimed): the counters start empty for each account and the
\* decision of a row depends on the rows of its own account only: the counters
\* a decision finds are what the earlier rows of the buyer's own account
\* partition add up to, whatever rows other partitions have in the ledger.
C25_CountersFromOwnAccountOnly ==
    \A j \in DOMAIN seen :
        \A X \in CharIds :
            /\ Get(seen[j].count, X, 0) = Cardinality(OwnEarlierRows(j, X))
            /\ Get(seen[j].spent, X, 0) = SumCost(OwnEarlierRows(j, X))
            /\ \A k \in {ItemKey(i) : i \in Rows} :
                  Get(seen[j].items, <<X, k>>, 0)
                      = Cardinality({i \in OwnEarlierRows(j, X) :
                                        ItemKey(i) = k /\ (k # "" \/ i \in DOMAIN seen)})

\* The rows of a written ledger that are not flagged manual, in file order.
NonManualOf(rows) == SelectSeq(rows, LAMBDA r : ~is_explicit_manual(r))

\* C26: a row flagged manual is skipped without touching the running state:
\* it is never decided, keeps the owner it was read with, and every other row
\* of the ledger is decided and written exactly as in a run on the same ledger
\* with the manual rows taken out.
C26_ManualRowAsIfAbsent ==
    /\ pc \in {"alloc", "done"} =>
          \A i \in Rows :
              is_explicit_manual(loot_rows[i]) =>
                  /\ i \notin DOMAIN seen
                  /\ assigned_char_id[i] = loot_rows[i].assigned_char_id
    /\ (pc = "done" /\ ledger_from = "manual_removed") => out_rows = NonManualOf(prev_out)

\* C26 witness: the second of the two runs has finished; the ledger of the
\* first had a manual row owned by a character holding one copy of the item,
\* and in both runs a later purchase of the item was newly assigned to that
\* character.
C26_Witness ==
    /\ pc = "done" /\ ledger_from = "manual_removed"
    /\ \E i \in NewlyAssigned :
          /\ seen[i].caps[assigned_char_id[i]] = 1
          /\ \E k \in DOMAIN prev_out :
                /\ is_explicit_manual(prev_out[k])
                /\ prev_out[k].assigned_char_id = assigned_char_id[i]
                /\ normalize_item_name(prev_out[k].item_name) = ItemKey(i)

\* The item id the per-class id map gives for the purchase of row i and the
\* class of character c; "" when the class is unknown or has no entry.
ExpectedId(i, c) ==
    Get(inputs.dkp_elemental_map[ItemKey(i)], Get(inputs.char_id_to_class, c, ""), "")

\* C27: for a purchase whose normalized name is in the per-class id map, the
\* held-count of a candidate is the number of copies it holds of the one item
\* id the map gives for its class, whatever their slot or material, and 0 when
\* the class has no entry or is unknown; the row goes only to such a holder.
C27_MappedPurchaseMatchesById ==
    \A i \in DOMAIN seen :
        ItemKey(i) \in DOMAIN inputs.dkp_elemental_map =>
            /\ \A c \in DOMAIN seen[i].caps :
                  seen[i].caps[c] =
                      IF ExpectedId(i, c) = "" THEN 0
                      ELSE Cardinality({k \in DOMAIN InventoryOf(c) :
                                           InventoryOf(c)[k].item_id = ExpectedId(i, c)})
            /\ assigned_char_id[i] # "" =>
                  \E k \in DOMAIN InventoryOf(assigned_char_id[i]) :
                      InventoryOf(assigned_char_id[i])[k].item_id
                          = ExpectedId(i, assigned_char_id[i])

\* C27 witness: the run has finished; a mapped purchase went to a character
\* holding two copies of the id of its class, in two slots, while a character
\* whose class has no entry held elemental armor and was not a candidate.
C27_Witness ==
    /\ pc = "done"
    /\ \E i \in NewlyAssigned :
          /\ ItemKey(i) \in DOMAIN inputs.dkp_elemental_map
          /\ seen[i].caps[assigned_char_id[i]] = 2
          /\ \E c \in DOMAIN seen[i].caps :
                /\ ExpectedId(i, c) = "" /\ seen[i].caps[c] = 0
                /\ \E k \in DOMAIN InventoryOf(c) :
                      InventoryOf(c)[k].item_id \in inputs.elemental_ids

\* The run has no elemental catalog, no per-class id map and no elemental
\* source name.
NoReferenceData ==
    /\ inputs.elemental_ids = {}
    /\ DOMAIN inputs.dkp_elemental_map = {}
    /\ inputs.elemental_source_norm = {}

\* The number of items in the inventory of c whose normalized name is in names.
HeldByName(c, names) ==
    Cardinality({k \in DOMAIN InventoryOf(c) :
                    normalize_item_name(InventoryOf(c)[k].item_name) \in names})

\* The names the built-in table counts as the purchased item besides its own.
EquivalentNames(key) ==
    IF key = "soul essence of aten ha ra" THEN {"talisman of vah kerrath"} ELSE {}

\* Without reference data no step of the run fails for lack of it: a run ends
\* early only on a cost that is not a number.
NoReferenceNotFatal ==
    (NoReferenceData /\ pc = "crashed") => \E i \in Rows : CostRaises(loot_rows[i].cost)

\* C28 (as claimed): without the optional reference data the run completes and
\* every purchase is matched by its exact normalized name only: the
\* held-count of a candidate is the number of its inventory items of that
\* normalized name.
C28_ExactNameOnly ==
    /\ NoReferenceNotFatal
    /\ NoReferenceData =>
          \A i \in DOMAIN seen :
              \A c \in DOMAIN seen[i].caps :
                  seen[i].caps[c] = HeldByName(c, {ItemKey(i)})

\* C28 (amended): without the optional reference data every purchase is
\* matched by normalized name: the held-count of a candidate is the number of
\* its inventory items whose normalized name is that of the purchase or one
\* the built-in equivalents table lists for it.
C28_NameOrEquivalent ==
    /\ NoReferenceNotFatal
    /\ NoReferenceData =>
          \A i \in DOMAIN seen :
              \A c \in DOMAIN seen[i].caps :
                  seen[i].caps[c] = HeldByName(c, {ItemKey(i)} \cup EquivalentNames(ItemKey(i)))

\* C28 witness: a run without catalog, id map and character classes has
\* finished; a purchase named like a held elemental armor piece was assigned
\* by name, and a purchase of a token went to the holder of its equivalent.
C28_Witness ==
    /\ pc = "done" /\ NoReferenceData /\ DOMAIN inputs.char_id_to_class = {}
    /\ \E i, j \in NewlyAssigned :
          /\ ItemKey(i) = "greaves of storm"
          /\ EquivalentNames(ItemKey(j)) # {}
          /\ HeldByName(assigned_char_id[j], {ItemKey(j)}) = 0

\* Item instance k of the inventory of c, taken alone, makes c a holder of the
\* item purchased in row i.
InstanceBacks(c, k, i) ==
    which_toons_have_item(loot_rows[i].item_name, <<c>>,
                          (Or(Get(inputs.dkp_to_magelo_id, c, ""), c) :> <<InventoryOf(c)[k]>>),
                          inputs.elemental_ids, inputs.elemental_source_norm,
                          inputs.dkp_to_magelo_id, ELEMENTAL_ARMOR_TYPE,
                          inputs.char_id_to_class,
                          required_for(loot_rows[i].item_name)[1],
                          required_for(loot_rows[i].item_name)[2],
                          elemental_lookup_for(ItemKey(i)))
        # <<>>

\* C29 (as claimed): no held item instance backs two assignments: for every
\* character the rows the run newly assigned to it can be matched one-to-one
\* with distinct instances of its inventory, each satisfying the matching rule
\* of its row, also when purchases of different names match the same item.
C29_DistinctInstancePerAssignment ==
    \A c \in CharIds :
        LET mine == {i \in NewlyAssigned : assigned_char_id[i] = c}
        IN  \E f \in [mine -> DOMAIN InventoryOf(c)] :
                /\ \A i, j \in mine : f[i] = f[j] => i = j
                /\ \A i \in mine : InstanceBacks(c, f[i], i)

\* C30 (as claimed): in every written ledger a row with assigned_via_magelo=1
\* has a non-empty owner id; a row the run newly assigned has
\* assigned_via_magelo=1, an owner id and an owner name; a row flagged
\* manual_assignment has assigned_via_magelo=0; and a row without owner id has
\* assigned_via_magelo=0.
C30_ProvenanceConsistent ==
    pc = "done" =>
        \A i \in DOMAIN out_rows :
            /\ out_rows[i].assigned_via_magelo = "1" => out_rows[i].assigned_char_id # ""
            /\ i \in NewlyAssigned =>
                  /\ out_rows[i].assigned_via_magelo = "1"
                  /\ out_rows[i].assigned_char_id # ""
                  /\ out_rows[i].assigned_character_name # ""
            /\ is_explicit_manual(loot_rows[i]) => out_rows[i].assigned_via_magelo = "0"
            /\ out_rows[i].assigned_char_id = "" => out_rows[i].assigned_via_magelo = "0"

\* C30 (amended): in every written ledger assigned_via_magelo is 0 or 1; a row
\* with assigned_via_magelo=1 has an owner id or an owner name; a row the run
\* newly assigned has assigned_via_magelo=1, an owner id and an owner name; a
\* row flagged manual_assignment has assigned_via_magelo=0; and a row with
\* neither owner id nor owner name has assigned_via_magelo=0.
C30_ProvenanceConsistentByIdOrName ==
    pc = "done" =>
        \A i \in DOMAIN out_rows :
            /\ out_rows[i].assigned_via_magelo \in {"0", "1"}
            /\ out_rows[i].assigned_via_magelo = "1" =>
                  (out_rows[i].assigned_char_id # "" \/ out_rows[i].assigned_character_name # "")
            /\ i \in NewlyAssigned =>
                  /\ out_rows[i].assigned_via_magelo = "1"
                  /\ out_rows[i].assigned_char_id # ""
                  /\ out_rows[i].assigned_character_name # ""
            /\ is_explicit_manual(loot_rows[i]) => out_rows[i].assigned_via_magelo = "0"
            /\ (out_rows[i].assigned_char_id = "" /\ out_rows[i].assigned_character_name = "")
                  => out_rows[i].assigned_via_magelo = "0"

\* C30 witness: a run has finished that newly assigned a row and wrote a row
\* flagged manual, read with assigned_via_magelo=1, with assigned_via_magelo=0.
C30_Witness ==
    /\ pc = "done"
    /\ NewlyAssigned # {}
    /\ \E i \in DOMAIN out_rows :
          /\ is_explicit_manual(loot_rows[i])
          /\ loot_rows[i].assigned_via_magelo = "1"
          /\ out_rows[i].assigned_via_magelo = "0"

====
